---- MODULE Spec2Model ----
(***************************************************************************)
(* A model of the tslox tree-walk interpreter: the driver (run, runFile,   *)
(* runPrompt), the static resolver and the evaluator.  The evaluator is a  *)
(* small-step machine: `ctrl' is what the interpreter is doing, `kont' is  *)
(* the stack of JavaScript activations waiting for a nested call, and the  *)
(* heap variables hold environments, functions, classes and instances.     *)
(* In Spec the scanner and the parser are represented by their results:    *)
(* an input line carries the statements the parser returned and the errors *)
(* the two stages reported.  SpecScan runs the scanner by itself, on every *)
(* source of up to MaxSource characters.                                   *)
(***************************************************************************)
EXTENDS Integers, Sequences, FiniteSets, TLC

VARIABLES
    args,             \* number of command line arguments (index.ts)
    input,            \* the file (one entry) or the lines typed at the prompt
    lineNo,           \* index in input of the source being run
    pc,               \* position of the driver
    hadError,         \* Lox.ts: let hadError
    hadRuntimeError,  \* Lox.ts: let hadRuntimeError
    exitCode,         \* process exit code, -1 while running
    stderr,           \* console.error reports
    stdout,           \* console.log lines
    stages,           \* stages of run() entered for the current source
    locals,           \* Interpreter.locals: <<run, expr id>> -> distance
    environment,      \* Interpreter.environment (index in envs)
    envs,             \* heap of Environment objects
    funs,             \* heap of LoxFunction objects
    classes,          \* heap of LoxClass objects
    instances,        \* heap of LoxInstance objects
    ctrl,             \* what the evaluator is doing
    kont,             \* activations waiting for a nested call, innermost last
    source,           \* Scanner.source, a sequence of characters
    tokens,           \* Scanner.tokens; Parser.tokens in SpecParse
    start,            \* Scanner.start
    current,          \* Scanner.current; Parser.current in SpecParse
    column,           \* Scanner.column
    line,             \* Scanner.line
    parsed            \* the statements Parser.parse has collected

vars == <<args, input, lineNo, pc, hadError, hadRuntimeError, exitCode, stderr,
          stdout, stages, locals, environment, envs, funs, classes, instances,
          ctrl, kont, source, tokens, start, current, column, line, parsed>>

scannerVars == <<source, tokens, start, current, column, line, parsed>>

driverVars == <<args, input, lineNo, pc, hadError, exitCode, stages, locals>>

heapVars == <<envs, funs, classes, instances>>

(***************************************************************************)
(* Bounds of the model.                                                    *)
(***************************************************************************)
MaxLines == 2

MaxClock == 1

(***************************************************************************)
(* Runtime values.                                                         *)
(***************************************************************************)
Nil == [t |-> "nil"]

Bool(b) == [t |-> "bool", b |-> b]

\* A number is the rational n/d in lowest terms, d > 0; nz marks IEEE -0.
Num(n) == [t |-> "num", n |-> n, d |-> 1, nz |-> FALSE]

Str(s) == [t |-> "str", s |-> s]

FunV(f) == [t |-> "fun", f |-> f]

ClassV(c) == [t |-> "class", c |-> c]

InstV(i) == [t |-> "inst", i |-> i]

NativeClock == [t |-> "native", name |-> "clock"]

(***************************************************************************)
(* The syntax tree.  Variable, Assign, This and Super nodes carry an id    *)
(* that stands for the identity of the JavaScript object.                  *)
(***************************************************************************)
Null == [type |-> "null"]

Literal(v) == [type |-> "Literal", value |-> v]

Variable(id, name) == [type |-> "Variable", id |-> id, name |-> name]

Assign(id, name, value) == [type |-> "Assign", id |-> id, name |-> name, value |-> value]

Binary(left, op, right) == [type |-> "Binary", left |-> left, operator |-> op, right |-> right]

Unary(op, right) == [type |-> "Unary", operator |-> op, right |-> right]

Logical(left, op, right) == [type |-> "Logical", left |-> left, operator |-> op, right |-> right]

Grouping(e) == [type |-> "Grouping", expression |-> e]

Call(callee, a) == [type |-> "Call", callee |-> callee, args |-> a]

Get(object, name) == [type |-> "Get", object |-> object, name |-> name]

Set(object, name, value) == [type |-> "Set", object |-> object, name |-> name, value |-> value]

This(id) == [type |-> "This", id |-> id, name |-> "this"]

Super(id, method) == [type |-> "Super", id |-> id, name |-> "super", method |-> method]

BlockStmt(stmts) == [type |-> "Block", statements |-> stmts]

ClassStmt(name, superclass, methods) == [type |-> "Class", name |-> name, superclass |-> superclass, methods |-> methods]

ExpressionStmt(e) == [type |-> "Expression", expression |-> e]

FunStmt(name, params, body) == [type |-> "Fun", name |-> name, params |-> params, body |-> body]

IfStmt(cond, thenBranch, elseBranch) == [type |-> "If", condition |-> cond, thenBranch |-> thenBranch, elseBranch |-> elseBranch]

PrintStmt(e) == [type |-> "Print", expression |-> e]

ReturnStmt(value) == [type |-> "Return", value |-> value]

VarStmt(name, initializer) == [type |-> "Var", name |-> name, initializer |-> initializer]

WhileStmt(cond, body) == [type |-> "While", condition |-> cond, body |-> body]

(***************************************************************************)
(* Maps (JavaScript Map objects) are functions with a finite domain.       *)
(***************************************************************************)
EmptyMap == [x \in {} |-> Nil]

Put(m, k, v) == [x \in (DOMAIN m) \cup {k} |-> IF x = k THEN v ELSE m[x]]

Has(m, k) == k \in DOMAIN m

Top(s) == s[Len(s)]

Pop(s) == SubSeq(s, 1, Len(s) - 1)

SetMax(S) == CHOOSE x \in S : \A y \in S : y <= x

(***************************************************************************)
(* Numbers.                                                                *)
(***************************************************************************)
Abs(x) == IF x < 0 THEN -x ELSE x

RECURSIVE Gcd(_, _)
Gcd(a, b) == IF b = 0 THEN a ELSE Gcd(b, a % b)

\* The number n/d (d # 0) in lowest terms; nz is kept only for a zero.
MkNum(n, d, nz) ==
    LET g == Gcd(Abs(n), Abs(d))
        sg == IF d < 0 THEN -1 ELSE 1
    IN  [t |-> "num", n |-> (sg * n) \div g, d |-> (sg * d) \div g, nz |-> nz /\ n = 0]

IsNegative(a) == a.n < 0 \/ a.nz

IsZero(a) == a.n = 0

NumAdd(a, b) == MkNum(a.n * b.d + b.n * a.d, a.d * b.d, a.nz /\ b.nz)

NumNeg(a) == [a EXCEPT !.n = -(a.n), !.nz = (a.n = 0 /\ ~a.nz)]

NumSub(a, b) == NumAdd(a, NumNeg(b))

NumMul(a, b) == MkNum(a.n * b.n, a.d * b.d, IsNegative(a) # IsNegative(b))

NumDiv(a, b) == MkNum(a.n * b.d, a.d * b.n, IsNegative(a) # IsNegative(b))

NumLess(a, b) == a.n * b.d < b.n * a.d

RECURSIVE FracDigits(_, _, _)
FracDigits(r, d, k) ==
    IF r = 0 \/ k = 0 THEN ""
    ELSE ToString((r * 10) \div d) \o FracDigits((r * 10) % d, d, k - 1)

\* String(value) of a number: integral values have no decimal point.
NumberToString(a) ==
    IF a.d = 1 THEN ToString(a.n)
    ELSE (IF a.n < 0 THEN "-" ELSE "") \o ToString(Abs(a.n) \div a.d) \o "."
         \o FracDigits(Abs(a.n) % a.d, a.d, 16)

(***************************************************************************)
(* Interpreter helpers (Lox.ts: isTruthy, isEqual, stringify).             *)
(***************************************************************************)
\* The truthiness of the host language: 0 and "" are falsy too.
isTruthyHost(v) ==
    IF v.t = "nil" THEN FALSE
    ELSE IF v.t = "bool" THEN v.b
    ELSE v \notin {Num(0), Str("")}

\* isTruthy: null and undefined are falsy, a boolean is itself, the rest truthy.
isTruthy(v) ==
    IF v.t = "nil" THEN FALSE
    ELSE IF v.t = "bool" THEN v.b
    ELSE TRUE

isEqual(a, b) ==
    IF a.t # b.t THEN FALSE
    ELSE IF a.t = "num" THEN a.n = b.n /\ a.d = b.d
    ELSE a = b

isZeroNegative(v) == v.n = 0 /\ v.nz

stringify(v, F, C, I) ==
    CASE v.t = "nil" -> "nil"
      [] v.t = "str" -> v.s
      [] v.t = "num" -> IF isZeroNegative(v) THEN "-0" ELSE NumberToString(v)
      [] v.t = "bool" -> IF v.b THEN "true" ELSE "false"
      [] v.t = "fun" -> "<fn " \o F[v.f].declaration.name \o ">"
      [] v.t = "native" -> "<native fn>"
      [] v.t = "class" -> C[v.c].name
      [] v.t = "inst" -> C[I[v.i].klass].name \o " instance"

checkNumberOperand(operand) == operand.t = "num"

checkNumberOperands(left, right) == left.t = "num" /\ right.t = "num"

(***************************************************************************)
(* Environment.  E is the heap of environments, e an index in it; the      *)
(* enclosing field is 0 when there is no enclosing environment.            *)
(***************************************************************************)
Globals == 1

NewEnvironment(enclosing) == [values |-> EmptyMap, enclosing |-> enclosing]

generateNativeEnvironment == [values |-> Put(EmptyMap, "clock", NativeClock), enclosing |-> 0]

EnvDefine(E, e, name, value) == [E EXCEPT ![e].values = Put(@, name, value)]

\* The environment of the chain starting at e that holds name, or 0:
\* where Environment.get and Environment.assign end up.
RECURSIVE EnvFind(_, _, _)
EnvFind(E, e, name) ==
    IF Has(E[e].values, name) THEN e
    ELSE IF E[e].enclosing # 0 THEN EnvFind(E, E[e].enclosing, name)
    ELSE 0

\* Environment.get: the value; the code throws "Undefined variable" exactly
\* when EnvFind is 0.
EnvGet(E, e, name) ==
    LET h == EnvFind(E, e, name)
    IN  IF h = 0 THEN Nil ELSE E[h].values[name]

\* An assignment that never throws.
assignSilent(E, e, name) == FALSE

\* Environment.assign throws when neither the environment nor one it
\* encloses binds the name.
assignThrows(E, e, name) == EnvFind(E, e, name) = 0

\* Environment.assign: the new heap when the code does not throw.
EnvAssign(E, e, name, value) ==
    LET h == EnvFind(E, e, name)
    IN  IF h = 0 THEN E ELSE [E EXCEPT ![h].values = Put(@, name, value)]

RECURSIVE ancestor(_, _, _)
ancestor(E, e, distance) ==
    IF distance = 0 \/ e = 0 THEN e
    ELSE ancestor(E, E[e].enclosing, distance - 1)

\* A missing key reads as undefined, which the interpreter treats as nil.
getAt(E, e, distance, name) ==
    LET a == ancestor(E, e, distance)
    IN  IF a # 0 /\ Has(E[a].values, name) THEN E[a].values[name] ELSE Nil

assignAt(E, e, distance, name, value) ==
    LET a == ancestor(E, e, distance)
    IN  IF a = 0 THEN E ELSE [E EXCEPT ![a].values = Put(@, name, value)]

(***************************************************************************)
(* LoxClass.  C is the heap of classes; superclass is 0 when absent.       *)
(***************************************************************************)
RECURSIVE findMethod(_, _, _)
findMethod(C, c, name) ==
    IF Has(C[c].methods, name) THEN C[c].methods[name]
    ELSE IF C[c].superclass # 0 THEN findMethod(C, C[c].superclass, name)
    ELSE 0

LoxFunctionArity(F, f) == Len(F[f].declaration.params)

LoxClassArity(F, C, c) ==
    LET initializer == findMethod(C, c, "init")
    IN  IF initializer = 0 THEN 0 ELSE LoxFunctionArity(F, initializer)

IsCallable(v) == v.t \in {"fun", "native", "class"}

arity(v, F, C) ==
    CASE v.t = "fun" -> LoxFunctionArity(F, v.f)
      [] v.t = "native" -> 0
      [] v.t = "class" -> LoxClassArity(F, C, v.c)

(***************************************************************************)
(* Resolver.  R is the resolver's state: its scopes, currentClass and      *)
(* currentFunction, together with the distances it has passed to           *)
(* Interpreter.resolveLocal and the messages it has passed to              *)
(* returnTokenError.                                                       *)
(***************************************************************************)
NewResolver == [scopes |-> <<>>, currentClass |-> "NONE", currentFunction |-> "NONE",
                locals |-> EmptyMap, errors |-> <<>>]

returnTokenError(R, message) == [R EXCEPT !.errors = Append(@, message)]

beginScope(R) == [R EXCEPT !.scopes = Append(@, [x \in {} |-> FALSE])]

endScope(R) == [R EXCEPT !.scopes = Pop(@)]

ScopeSet(R, name, flag) == [R EXCEPT !.scopes[Len(R.scopes)] = Put(@, name, flag)]

declare(R, name) ==
    IF Len(R.scopes) < 1 THEN R
    ELSE LET R1 == IF Has(Top(R.scopes), name)
                   THEN returnTokenError(R, "A variable '" \o name
                                            \o "' already exists in this scope")
                   ELSE R
         IN  ScopeSet(R1, name, FALSE)

define(R, name) ==
    IF Len(R.scopes) < 1 THEN R
    ELSE ScopeSet(R, name, TRUE)

\* resolveLocal recording scopes.length - i instead of scopes.length - 1 - i.
resolveLocalOffByOne(R, expr, name) ==
    LET hits == {i \in 1..Len(R.scopes) : Has(R.scopes[i], name)}
    IN  IF hits = {} THEN R
        ELSE [R EXCEPT !.locals = Put(@, expr.id, Len(R.scopes) - SetMax(hits) + 1)]

resolveLocal(R, expr, name) ==
    LET hits == {i \in 1..Len(R.scopes) : Has(R.scopes[i], name)}
    IN  IF hits = {} THEN R
        ELSE [R EXCEPT !.locals = Put(@, expr.id, Len(R.scopes) - SetMax(hits))]

RECURSIVE resolveParams(_, _)
resolveParams(R, params) ==
    IF Len(params) = 0 THEN R
    ELSE resolveParams(define(declare(R, Head(params)), Head(params)), Tail(params))

RECURSIVE resolveExpression(_, _)
RECURSIVE resolveExpressionList(_, _)
RECURSIVE resolveStatement(_, _)
RECURSIVE resolveStatementList(_, _)
RECURSIVE resolveFunction(_, _, _)
RECURSIVE resolveMethods(_, _)

\* (The test on R1 makes TLC compute R1 before it goes on; it is always true.)
resolveExpressionList(R, exprs) ==
    IF Len(exprs) = 0 THEN R
    ELSE LET R1 == resolveExpression(R, Head(exprs))
         IN  IF Len(R1.errors) >= 0 THEN resolveExpressionList(R1, Tail(exprs)) ELSE R1

resolveStatementList(R, statements) ==
    IF Len(statements) = 0 THEN R
    ELSE LET R1 == resolveStatement(R, Head(statements))
         IN  IF Len(R1.errors) >= 0 THEN resolveStatementList(R1, Tail(statements)) ELSE R1

\* resolveFunction without `this.currentFunction = enclosingFunction'.
resolveFunctionNoRestore(R, fun, type) ==
    LET R1 == beginScope([R EXCEPT !.currentFunction = type])
        R2 == resolveParams(R1, fun.params)
    IN  endScope(resolveStatementList(R2, fun.body))

resolveFunction(R, fun, type) ==
    LET enclosingFunction == R.currentFunction
        R1 == beginScope([R EXCEPT !.currentFunction = type])
        R2 == resolveParams(R1, fun.params)
        R3 == endScope(resolveStatementList(R2, fun.body))
    IN  [R3 EXCEPT !.currentFunction = enclosingFunction]

resolveMethods(R, methods) ==
    IF Len(methods) = 0 THEN R
    ELSE LET method == Head(methods)
             declaration == IF method.name = "init" THEN "INITIALIZER" ELSE "METHOD"
             R1 == resolveFunction(R, method, declaration)
         IN  IF Len(R1.errors) >= 0 THEN resolveMethods(R1, Tail(methods)) ELSE R1

\* visitClassStmt without `this.currentClass = enclosingClass'.
ResolverVisitClassStmtNoRestore(R, stmt) ==
    LET R1 == define(declare([R EXCEPT !.currentClass = "CLASS"], stmt.name), stmt.name)
        R2 == IF stmt.superclass.type # "null"
              THEN LET Ra == IF stmt.name = stmt.superclass.name
                             THEN returnTokenError(R1, "A class can't inherit from itself")
                             ELSE R1
                   IN  resolveExpression([Ra EXCEPT !.currentClass = "SUBCLASS"], stmt.superclass)
              ELSE R1
        R3 == IF stmt.superclass.type # "null"
              THEN ScopeSet(beginScope(R2), "super", TRUE)
              ELSE R2
        R4 == ScopeSet(beginScope(R3), "this", TRUE)
        R5 == endScope(resolveMethods(R4, stmt.methods))
        R6 == IF stmt.superclass.type # "null" THEN endScope(R5) ELSE R5
    IN  R6

ResolverVisitClassStmt(R, stmt) ==
    LET enclosingClass == R.currentClass
        R1 == define(declare([R EXCEPT !.currentClass = "CLASS"], stmt.name), stmt.name)
        R2 == IF stmt.superclass.type # "null"
              THEN LET Ra == IF stmt.name = stmt.superclass.name
                             THEN returnTokenError(R1, "A class can't inherit from itself")
                             ELSE R1
                   IN  resolveExpression([Ra EXCEPT !.currentClass = "SUBCLASS"], stmt.superclass)
              ELSE R1
        R3 == IF stmt.superclass.type # "null"
              THEN ScopeSet(beginScope(R2), "super", TRUE)
              ELSE R2
        R4 == ScopeSet(beginScope(R3), "this", TRUE)
        R5 == endScope(resolveMethods(R4, stmt.methods))
        R6 == IF stmt.superclass.type # "null" THEN endScope(R5) ELSE R5
    IN  [R6 EXCEPT !.currentClass = enclosingClass]

ResolverVisitReturnStmt(R, stmt) ==
    LET R1 == IF R.currentFunction = "NONE"
              THEN returnTokenError(R, "Can't return from top-level code")
              ELSE R
    IN  IF stmt.value.type # "null"
        THEN LET R2 == IF R1.currentFunction = "INITIALIZER"
                       THEN returnTokenError(R1, "Can't return a value from an initializer")
                       ELSE R1
             IN  resolveExpression(R2, stmt.value)
        ELSE R1

ResolverVisitVarStmt(R, stmt) ==
    LET R1 == declare(R, stmt.name)
        R2 == IF stmt.initializer.type # "null"
              THEN resolveExpression(R1, stmt.initializer)
              ELSE R1
    IN  define(R2, stmt.name)

\* visitVariableExpr without the test of the innermost scope.
ResolverVisitVariableExprUnchecked(R, expr) == resolveLocal(R, expr, expr.name)

ResolverVisitVariableExpr(R, expr) ==
    LET R1 == IF /\ Len(R.scopes) > 0
                 /\ Has(Top(R.scopes), expr.name)
                 /\ Top(R.scopes)[expr.name] = FALSE
              THEN returnTokenError(R, "Can't read local variable in its own initializer")
              ELSE R
    IN  resolveLocal(R1, expr, expr.name)

ResolverVisitSuperExpr(R, expr) ==
    LET R1 == IF R.currentClass = "NONE"
              THEN returnTokenError(R, "Can't use 'super' outside of a class")
              ELSE IF R.currentClass # "SUBCLASS"
              THEN returnTokenError(R, "Can't use 'super' in a class with no superclass")
              ELSE R
    IN  resolveLocal(R1, expr, "super")

ResolverVisitThisExpr(R, expr) ==
    IF R.currentClass = "NONE"
    THEN returnTokenError(R, "Can't use 'this' outside of a class")
    ELSE resolveLocal(R, expr, "this")

resolveStatement(R, stmt) ==
    CASE stmt.type = "Block" -> endScope(resolveStatementList(beginScope(R), stmt.statements))
      [] stmt.type = "Class" -> ResolverVisitClassStmt(R, stmt)
      [] stmt.type = "Expression" -> resolveExpression(R, stmt.expression)
      [] stmt.type = "Fun" ->
            resolveFunction(define(declare(R, stmt.name), stmt.name), stmt, "FUNCTION")
      [] stmt.type = "If" ->
            LET R1 == resolveStatement(resolveExpression(R, stmt.condition), stmt.thenBranch)
            IN  IF stmt.elseBranch.type # "null" THEN resolveStatement(R1, stmt.elseBranch) ELSE R1
      [] stmt.type = "Print" -> resolveExpression(R, stmt.expression)
      [] stmt.type = "Return" -> ResolverVisitReturnStmt(R, stmt)
      [] stmt.type = "Var" -> ResolverVisitVarStmt(R, stmt)
      [] stmt.type = "While" ->
            resolveStatement(resolveExpression(R, stmt.condition), stmt.body)

resolveExpression(R, expr) ==
    CASE expr.type = "Assign" ->
            resolveLocal(resolveExpression(R, expr.value), expr, expr.name)
      [] expr.type = "Binary" ->
            resolveExpression(resolveExpression(R, expr.left), expr.right)
      [] expr.type = "Call" ->
            resolveExpressionList(resolveExpression(R, expr.callee), expr.args)
      [] expr.type = "Get" -> resolveExpression(R, expr.object)
      [] expr.type = "Grouping" -> resolveExpression(R, expr.expression)
      [] expr.type = "Literal" -> R
      [] expr.type = "Logical" ->
            resolveExpression(resolveExpression(R, expr.left), expr.right)
      [] expr.type = "Set" ->
            resolveExpression(resolveExpression(R, expr.value), expr.object)
      [] expr.type = "Super" -> ResolverVisitSuperExpr(R, expr)
      [] expr.type = "This" -> ResolverVisitThisExpr(R, expr)
      [] expr.type = "Unary" -> resolveExpression(R, expr.right)
      [] expr.type = "Variable" -> ResolverVisitVariableExpr(R, expr)

(***************************************************************************)
(* The evaluator's control states and activation records.                  *)
(***************************************************************************)
Idle == [c |-> "idle"]

Exec(stmt) == [c |-> "exec", stmt |-> stmt]          \* execute(stmt) is being called

Visit(stmt) == [c |-> "visit", stmt |-> stmt]        \* stmt.accept(this)

Eval(expr) == [c |-> "eval", expr |-> expr]          \* evaluate(expr) is being called

Value(v) == [c |-> "value", v |-> v]                 \* an expression returned v

Done == [c |-> "done"]                               \* a statement-level call returned

Invoke(callee, a) == [c |-> "call", callee |-> callee, args |-> a]   \* fun.call(this, args)

RuntimeError(message) == [c |-> "throw", kind |-> "RuntimeError", v |-> Nil, message |-> message]

ReturnError(v) == [c |-> "throw", kind |-> "ReturnError", v |-> v, message |-> ""]

\* The TypeError JavaScript raises when a member of undefined is read.
TypeError == [c |-> "throw", kind |-> "TypeError", v |-> Nil, message |-> ""]

Push(frame) == Append(kont, frame)

Replace(frame) == [kont EXCEPT ![Len(kont)] = frame]

TopIs(k) == Len(kont) > 0 /\ Top(kont).k = k

Interpreting == pc = "interpret"

(***************************************************************************)
(* Interpreter.execute and exception propagation.                          *)
(***************************************************************************)
\* execute(stmt): the activation remembers the statement and the environment
\* it started in.
execute ==
    /\ Interpreting
    /\ \/ /\ ctrl.c = "exec"
          /\ kont' = Push([k |-> "execute", stmt |-> ctrl.stmt, before |-> environment])
          /\ ctrl' = Visit(ctrl.stmt)
       \/ /\ ctrl.c = "done"
          /\ TopIs("execute")
          /\ kont' = Pop(kont)
          /\ ctrl' = Done
    /\ UNCHANGED <<driverVars, hadRuntimeError, stderr, stdout, environment, heapVars>>
    /\ UNCHANGED scannerVars

\* Activations without a try block: an exception passes through them.
NoHandler == {"execute", "ExpressionStmt", "PrintStmt", "VarStmt", "IfStmt", "WhileStmt",
              "ReturnStmt", "ClassStmt", "Assign", "Unary", "Binary", "Logical", "Call",
              "Get", "Set", "LoxClassCall"}

propagate ==
    /\ Interpreting
    /\ ctrl.c = "throw"
    /\ Len(kont) > 0
    /\ Top(kont).k \in NoHandler
    /\ kont' = Pop(kont)
    /\ UNCHANGED <<driverVars, hadRuntimeError, stderr, stdout, environment, heapVars, ctrl>>
    /\ UNCHANGED scannerVars

(***************************************************************************)
(* Statements.                                                             *)
(***************************************************************************)
visitExpressionStmt ==
    /\ Interpreting
    /\ \/ /\ ctrl.c = "visit" /\ ctrl.stmt.type = "Expression"
          /\ kont' = Push([k |-> "ExpressionStmt"])
          /\ ctrl' = Eval(ctrl.stmt.expression)
       \/ /\ ctrl.c = "value" /\ TopIs("ExpressionStmt")
          /\ kont' = Pop(kont)
          /\ ctrl' = Done
    /\ UNCHANGED <<driverVars, hadRuntimeError, stderr, stdout, environment, heapVars>>
    /\ UNCHANGED scannerVars

visitPrintStmt ==
    /\ Interpreting
    /\ \/ /\ ctrl.c = "visit" /\ ctrl.stmt.type = "Print"
          /\ kont' = Push([k |-> "PrintStmt"])
          /\ ctrl' = Eval(ctrl.stmt.expression)
          /\ UNCHANGED stdout
       \/ /\ ctrl.c = "value" /\ TopIs("PrintStmt")
          /\ stdout' = Append(stdout, [run |-> lineNo, src |-> "print",
                                       text |-> stringify(ctrl.v, funs, classes, instances)])
          /\ kont' = Pop(kont)
          /\ ctrl' = Done
    /\ UNCHANGED <<driverVars, hadRuntimeError, stderr, environment, heapVars>>
    /\ UNCHANGED scannerVars

visitVarStmt ==
    /\ Interpreting
    /\ \/ /\ ctrl.c = "visit" /\ ctrl.stmt.type = "Var"
          /\ IF ctrl.stmt.initializer.type # "null"
             THEN /\ kont' = Push([k |-> "VarStmt", name |-> ctrl.stmt.name])
                  /\ ctrl' = Eval(ctrl.stmt.initializer)
                  /\ UNCHANGED envs
             ELSE /\ envs' = EnvDefine(envs, environment, ctrl.stmt.name, Nil)
                  /\ ctrl' = Done
                  /\ UNCHANGED kont
       \/ /\ ctrl.c = "value" /\ TopIs("VarStmt")
          /\ envs' = EnvDefine(envs, environment, Top(kont).name, ctrl.v)
          /\ kont' = Pop(kont)
          /\ ctrl' = Done
    /\ UNCHANGED <<driverVars, hadRuntimeError, stderr, stdout, environment, funs, classes, instances>>
    /\ UNCHANGED scannerVars

\* visitBlockStmt: executeBlock(stmt.statements, new Environment(this.environment)).
\* The activation of executeBlock keeps `previous' and the statements done so far.
visitBlockStmt ==
    /\ Interpreting
    /\ ctrl.c = "visit" /\ ctrl.stmt.type = "Block"
    /\ envs' = Append(envs, NewEnvironment(environment))
    /\ kont' = Push([k |-> "executeBlock", statements |-> ctrl.stmt.statements, i |-> 0,
                     previous |-> environment])
    /\ environment' = Len(envs) + 1
    /\ ctrl' = Done
    /\ UNCHANGED <<driverVars, hadRuntimeError, stderr, stdout, funs, classes, instances>>
    /\ UNCHANGED scannerVars

\* executeBlock without its finally block: this.environment stays as it is.
executeBlockNoFinally(previous) == environment

\* What the finally block of executeBlock assigns to this.environment.
executeBlockFinally(previous) == previous

executeBlock ==
    /\ Interpreting
    /\ TopIs("executeBlock")
    /\ \/ /\ ctrl.c = "done"
          /\ Top(kont).i < Len(Top(kont).statements)
          /\ kont' = Replace([Top(kont) EXCEPT !.i = @ + 1])
          /\ ctrl' = Exec(Top(kont).statements[Top(kont).i + 1])
          /\ UNCHANGED environment
       \/ /\ ctrl.c = "done"
          /\ Top(kont).i = Len(Top(kont).statements)
          /\ environment' = executeBlockFinally(Top(kont).previous)
          /\ kont' = Pop(kont)
          /\ ctrl' = Done
       \/ /\ ctrl.c = "throw"
          /\ environment' = executeBlockFinally(Top(kont).previous)
          /\ kont' = Pop(kont)
          /\ UNCHANGED ctrl
    /\ UNCHANGED <<driverVars, hadRuntimeError, stderr, stdout, heapVars>>
    /\ UNCHANGED scannerVars

visitIfStmt ==
    /\ Interpreting
    /\ \/ /\ ctrl.c = "visit" /\ ctrl.stmt.type = "If"
          /\ kont' = Push([k |-> "IfStmt", stmt |-> ctrl.stmt])
          /\ ctrl' = Eval(ctrl.stmt.condition)
       \/ /\ ctrl.c = "value" /\ TopIs("IfStmt")
          /\ kont' = Pop(kont)
          /\ ctrl' = IF isTruthy(ctrl.v) THEN Exec(Top(kont).stmt.thenBranch)
                     ELSE IF Top(kont).stmt.elseBranch.type # "null"
                     THEN Exec(Top(kont).stmt.elseBranch)
                     ELSE Done
    /\ UNCHANGED <<driverVars, hadRuntimeError, stderr, stdout, environment, heapVars>>
    /\ UNCHANGED scannerVars

visitWhileStmt ==
    /\ Interpreting
    /\ \/ /\ ctrl.c = "visit" /\ ctrl.stmt.type = "While"
          /\ kont' = Push([k |-> "WhileStmt", stmt |-> ctrl.stmt, inBody |-> FALSE])
          /\ ctrl' = Eval(ctrl.stmt.condition)
       \/ /\ ctrl.c = "value" /\ TopIs("WhileStmt")
          /\ IF isTruthy(ctrl.v)
             THEN /\ kont' = Replace([Top(kont) EXCEPT !.inBody = TRUE])
                  /\ ctrl' = Exec(Top(kont).stmt.body)
             ELSE /\ kont' = Pop(kont)
                  /\ ctrl' = Done
       \/ /\ ctrl.c = "done" /\ TopIs("WhileStmt")
          /\ kont' = Replace([Top(kont) EXCEPT !.inBody = FALSE])
          /\ ctrl' = Eval(Top(kont).stmt.condition)
    /\ UNCHANGED <<driverVars, hadRuntimeError, stderr, stdout, environment, heapVars>>
    /\ UNCHANGED scannerVars

\* new LoxFunction(declaration, closure, isInitializer); bound is the instance
\* bind() was given (0 for a function that no bind() produced).
LoxFunction(declaration, closure, isInitializer, bound) ==
    [declaration |-> declaration, closure |-> closure, isInitializer |-> isInitializer,
     bound |-> bound]

\* The closure a function declaration captures.
FunStmtClosure(env) == env

visitFunStmt ==
    /\ Interpreting
    /\ ctrl.c = "visit" /\ ctrl.stmt.type = "Fun"
    /\ funs' = Append(funs, LoxFunction(ctrl.stmt, FunStmtClosure(environment), FALSE, 0))
    /\ envs' = EnvDefine(envs, environment, ctrl.stmt.name, FunV(Len(funs) + 1))
    /\ ctrl' = Done
    /\ UNCHANGED <<driverVars, hadRuntimeError, stderr, stdout, environment, classes, instances, kont>>
    /\ UNCHANGED scannerVars

visitReturnStmt ==
    /\ Interpreting
    /\ \/ /\ ctrl.c = "visit" /\ ctrl.stmt.type = "Return"
          /\ IF ctrl.stmt.value.type # "null"
             THEN /\ kont' = Push([k |-> "ReturnStmt"])
                  /\ ctrl' = Eval(ctrl.stmt.value)
             ELSE /\ ctrl' = ReturnError(Nil)
                  /\ UNCHANGED kont
       \/ /\ ctrl.c = "value" /\ TopIs("ReturnStmt")
          /\ kont' = Pop(kont)
          /\ ctrl' = ReturnError(ctrl.v)
    /\ UNCHANGED <<driverVars, hadRuntimeError, stderr, stdout, environment, heapVars>>
    /\ UNCHANGED scannerVars

RECURSIVE MakeMethods(_, _, _, _)
\* The forEach of visitClassStmt: one LoxFunction per method, a later method
\* of the same name replacing an earlier one in the table.
MakeMethods(F, methods, closure, table) ==
    IF Len(methods) = 0 THEN [funs |-> F, methods |-> table]
    ELSE LET method == Head(methods)
         IN  MakeMethods(Append(F, LoxFunction(method, closure, method.name = "init", 0)),
                         Tail(methods), closure, Put(table, method.name, Len(F) + 1))

LoxClass(name, superclass, methods) ==
    [name |-> name, superclass |-> superclass, methods |-> methods]

\* The environment visitClassStmt leaves in this.environment after the methods
\* are built: the enclosing one when a `super' environment was pushed.
ClassStmtRestore(E, env, superclass) ==
    IF superclass # 0 THEN E[env].enclosing ELSE env

\* First half of visitClassStmt, after the superclass (0 if none) is known:
\* define the name and push the environment holding `super'.
ClassStmtDefine(stmt, superclass, frames) ==
    LET E1 == EnvDefine(envs, environment, stmt.name, Nil)
    IN  /\ IF stmt.superclass.type # "null"
           THEN /\ envs' = Append(E1, [values |-> Put(EmptyMap, "super", ClassV(superclass)),
                                        enclosing |-> environment])
                /\ environment' = Len(E1) + 1
           ELSE /\ envs' = E1
                /\ UNCHANGED environment
        /\ kont' = Append(frames, [k |-> "ClassStmt", stmt |-> stmt, phase |-> "methods",
                                   superclass |-> superclass])
        /\ ctrl' = Done
        /\ UNCHANGED <<funs, classes>>

visitClassStmt ==
    /\ Interpreting
    /\ \/ /\ ctrl.c = "visit" /\ ctrl.stmt.type = "Class"
          /\ ctrl.stmt.superclass.type # "null"
          /\ kont' = Push([k |-> "ClassStmt", stmt |-> ctrl.stmt, phase |-> "superclass",
                           superclass |-> 0])
          /\ ctrl' = Eval(ctrl.stmt.superclass)
          /\ UNCHANGED <<environment, envs, funs, classes>>
       \/ /\ ctrl.c = "visit" /\ ctrl.stmt.type = "Class"
          /\ ctrl.stmt.superclass.type = "null"
          /\ ClassStmtDefine(ctrl.stmt, 0, kont)
       \/ /\ ctrl.c = "value" /\ TopIs("ClassStmt") /\ Top(kont).phase = "superclass"
          /\ IF ctrl.v.t # "class"
             THEN /\ ctrl' = RuntimeError("Superclass must be a class.")
                  /\ kont' = Pop(kont)
                  /\ UNCHANGED <<environment, envs, funs, classes>>
             ELSE ClassStmtDefine(Top(kont).stmt, ctrl.v.c, Pop(kont))
       \/ /\ ctrl.c = "done" /\ TopIs("ClassStmt") /\ Top(kont).phase = "methods"
          /\ LET stmt == Top(kont).stmt
                 made == MakeMethods(funs, stmt.methods, environment, EmptyMap)
                 after == ClassStmtRestore(envs, environment, Top(kont).superclass)
             IN  /\ funs' = made.funs
                 /\ classes' = Append(classes, LoxClass(stmt.name, Top(kont).superclass, made.methods))
                 /\ environment' = after
                 /\ envs' = EnvAssign(envs, after, stmt.name, ClassV(Len(classes) + 1))
          /\ kont' = Pop(kont)
          /\ ctrl' = Done
    /\ UNCHANGED <<driverVars, hadRuntimeError, stderr, stdout, instances>>
    /\ UNCHANGED scannerVars

(***************************************************************************)
(* Callables.                                                              *)
(***************************************************************************)
\* bind defining this in the closure itself instead of a new Environment(closure).
bindShared(E, F, f, instance) ==
    [envs |-> EnvDefine(E, F[f].closure, "this", InstV(instance)),
     funs |-> Append(F, LoxFunction(F[f].declaration, F[f].closure, F[f].isInitializer, instance)),
     f |-> Len(F) + 1]

\* LoxFunction.bind: the heaps with the new environment and function, and
\* the index of the new function.
bind(E, F, f, instance) ==
    [envs |-> Append(E, [values |-> Put(EmptyMap, "this", InstV(instance)),
                         enclosing |-> F[f].closure]),
     funs |-> Append(F, LoxFunction(F[f].declaration, Len(E) + 1, F[f].isInitializer, instance)),
     f |-> Len(F) + 1]

\* The values map of the environment LoxFunction.call creates.
BindParams(params, a) ==
    [n \in {params[i] : i \in 1..Len(params)} |->
        a[SetMax({i \in 1..Len(params) : params[i] = n})]]

\* call enclosing the new environment in the caller's environment.
CallEnclosingCaller(F, f, caller) == caller

\* The enclosing environment of the environment LoxFunction.call creates.
CallEnclosing(F, f, caller) == F[f].closure

\* call without the two isInitializer tests.
CallResultPlain(E, F, f, returned, v) == IF returned THEN v ELSE Nil

\* What LoxFunction.call returns when the body ended normally (returned = FALSE)
\* or with a ReturnError carrying v (returned = TRUE).
CallResult(E, F, f, returned, v) ==
    IF F[f].isInitializer THEN getAt(E, F[f].closure, 0, "this")
    ELSE IF returned THEN v
    ELSE Nil

\* A catch of call that handles every exception.
CallCatchesAll(kind) == TRUE

\* The catch of LoxFunction.call handles e when e instanceof ReturnError.
CallCatches(kind) == kind = "ReturnError"

\* The activation of call remembers the function, the environment it created
\* and the environment of its caller.
LoxFunctionCall ==
    /\ Interpreting
    /\ \/ /\ ctrl.c = "call" /\ ctrl.callee.t = "fun"
          /\ LET f == ctrl.callee.f
             IN  /\ envs' = Append(envs, [values |-> BindParams(funs[f].declaration.params, ctrl.args),
                                          enclosing |-> CallEnclosing(funs, f, environment)])
                 /\ kont' = kont \o <<[k |-> "LoxFunctionCall", f |-> f, env |-> Len(envs) + 1,
                                       caller |-> environment],
                                      [k |-> "executeBlock", statements |-> funs[f].declaration.body,
                                       i |-> 0, previous |-> environment]>>
                 /\ environment' = Len(envs) + 1
                 /\ ctrl' = Done
       \/ /\ ctrl.c = "done" /\ TopIs("LoxFunctionCall")
          /\ ctrl' = Value(CallResult(envs, funs, Top(kont).f, FALSE, Nil))
          /\ kont' = Pop(kont)
          /\ UNCHANGED <<environment, envs>>
       \/ /\ ctrl.c = "throw" /\ TopIs("LoxFunctionCall")
          /\ ctrl' = IF CallCatches(ctrl.kind)
                     THEN Value(CallResult(envs, funs, Top(kont).f, TRUE, ctrl.v))
                     ELSE ctrl
          /\ kont' = Pop(kont)
          /\ UNCHANGED <<environment, envs>>
    /\ UNCHANGED <<driverVars, hadRuntimeError, stderr, stdout, funs, classes, instances>>
    /\ UNCHANGED scannerVars

LoxInstance(klass) == [klass |-> klass, fields |-> EmptyMap]

LoxClassCall ==
    /\ Interpreting
    /\ \/ /\ ctrl.c = "call" /\ ctrl.callee.t = "class"
          /\ instances' = Append(instances, LoxInstance(ctrl.callee.c))
          /\ LET initializer == findMethod(classes, ctrl.callee.c, "init")
                 bound == bind(envs, funs, initializer, Len(instances) + 1)
             IN  IF initializer # 0
                 THEN /\ envs' = bound.envs
                      /\ funs' = bound.funs
                      /\ kont' = Push([k |-> "LoxClassCall", instance |-> Len(instances) + 1])
                      /\ ctrl' = Invoke(FunV(bound.f), ctrl.args)
                 ELSE /\ ctrl' = Value(InstV(Len(instances) + 1))
                      /\ UNCHANGED <<envs, funs, kont>>
       \/ /\ ctrl.c = "value" /\ TopIs("LoxClassCall")
          /\ ctrl' = Value(InstV(Top(kont).instance))
          /\ kont' = Pop(kont)
          /\ UNCHANGED <<envs, funs, instances>>
    /\ UNCHANGED <<driverVars, hadRuntimeError, stderr, stdout, environment, classes>>
    /\ UNCHANGED scannerVars

\* The native clock: Date.now() / 1000 is whatever the host's clock says.
NativeClockCall ==
    /\ Interpreting
    /\ ctrl.c = "call" /\ ctrl.callee.t = "native"
    /\ \E now \in 0..MaxClock : ctrl' = Value(Num(now))
    /\ UNCHANGED <<driverVars, hadRuntimeError, stderr, stdout, environment, heapVars, kont>>
    /\ UNCHANGED scannerVars

(***************************************************************************)
(* Expressions.                                                            *)
(***************************************************************************)
exprFrame == <<driverVars, hadRuntimeError, stderr, stdout, environment>>

visitLiteralExpr ==
    /\ Interpreting
    /\ ctrl.c = "eval" /\ ctrl.expr.type = "Literal"
    /\ ctrl' = Value(ctrl.expr.value)
    /\ UNCHANGED <<exprFrame, heapVars, kont>>
    /\ UNCHANGED scannerVars

visitGroupingExpr ==
    /\ Interpreting
    /\ ctrl.c = "eval" /\ ctrl.expr.type = "Grouping"
    /\ ctrl' = Eval(ctrl.expr.expression)
    /\ UNCHANGED <<exprFrame, heapVars, kont>>
    /\ UNCHANGED scannerVars

\* Interpreter.resolveLocal: this.locals.set(expr, depth), for every distance
\* the resolver recorded.
InterpreterResolveLocal(L, recorded) ==
    [id \in (DOMAIN L) \cup (DOMAIN recorded) |->
        IF id \in DOMAIN recorded THEN recorded[id] ELSE L[id]]

\* A variant of lookUpVariable that looks the name up from the current
\* environment outwards.
lookUpVariableByName(name, expr) == EnvGet(envs, environment, name)

\* lookUpVariable: the value it returns.
lookUpVariable(name, expr) ==
    IF Has(locals, expr.id)
    THEN getAt(envs, environment, locals[expr.id], name)
    ELSE EnvGet(envs, Globals, name)

\* lookUpVariable throws: only globals.get can.
lookUpThrows(name, expr) == ~Has(locals, expr.id) /\ EnvFind(envs, Globals, name) = 0

LookUpStep ==
    /\ ctrl' = IF lookUpThrows(ctrl.expr.name, ctrl.expr)
               THEN RuntimeError("Undefined variable '" \o ctrl.expr.name \o "'")
               ELSE Value(lookUpVariable(ctrl.expr.name, ctrl.expr))
    /\ UNCHANGED <<exprFrame, heapVars, kont>>

visitVariableExpr ==
    /\ Interpreting
    /\ ctrl.c = "eval" /\ ctrl.expr.type = "Variable"
    /\ LookUpStep
    /\ UNCHANGED scannerVars

visitThisExpr ==
    /\ Interpreting
    /\ ctrl.c = "eval" /\ ctrl.expr.type = "This"
    /\ LookUpStep
    /\ UNCHANGED scannerVars

visitAssignExpr ==
    /\ Interpreting
    /\ \/ /\ ctrl.c = "eval" /\ ctrl.expr.type = "Assign"
          /\ kont' = Push([k |-> "Assign", expr |-> ctrl.expr])
          /\ ctrl' = Eval(ctrl.expr.value)
          /\ UNCHANGED envs
       \/ /\ ctrl.c = "value" /\ TopIs("Assign")
          /\ LET expr == Top(kont).expr
             IN  IF Has(locals, expr.id)
                 THEN /\ envs' = assignAt(envs, environment, locals[expr.id], expr.name, ctrl.v)
                      /\ UNCHANGED ctrl
                 ELSE IF ~assignThrows(envs, Globals, expr.name)
                 THEN /\ envs' = EnvAssign(envs, Globals, expr.name, ctrl.v)
                      /\ UNCHANGED ctrl
                 ELSE /\ ctrl' = RuntimeError("Undefined variable '" \o expr.name \o "'")
                      /\ UNCHANGED envs
          /\ kont' = Pop(kont)
    /\ UNCHANGED <<exprFrame, funs, classes, instances>>
    /\ UNCHANGED scannerVars

visitUnaryExpr ==
    /\ Interpreting
    /\ \/ /\ ctrl.c = "eval" /\ ctrl.expr.type = "Unary"
          /\ kont' = Push([k |-> "Unary", expr |-> ctrl.expr])
          /\ ctrl' = Eval(ctrl.expr.right)
       \/ /\ ctrl.c = "value" /\ TopIs("Unary")
          /\ kont' = Pop(kont)
          /\ ctrl' = CASE Top(kont).expr.operator = "BANG" -> Value(Bool(~isTruthy(ctrl.v)))
                       [] Top(kont).expr.operator = "MINUS" ->
                            IF checkNumberOperand(ctrl.v) THEN Value(NumNeg(ctrl.v))
                            ELSE RuntimeError("Operand must be a number.")
                       [] OTHER -> Value(Nil)
    /\ UNCHANGED <<exprFrame, heapVars>>
    /\ UNCHANGED scannerVars

Numeric(left, right, result) ==
    IF checkNumberOperands(left, right) THEN Value(result)
    ELSE RuntimeError("Operands must be numbers.")

\* SLASH testing the divisor before the operand types.
SlashZeroFirst(left, right) ==
    IF right.t = "num" /\ IsZero(right) THEN RuntimeError("Cannot divide by zero.")
    ELSE IF ~checkNumberOperands(left, right) THEN RuntimeError("Operands must be numbers.")
    ELSE Value(NumDiv(left, right))

\* case TokenType.SLASH of visitBinaryExpr.
Slash(left, right) ==
    IF ~checkNumberOperands(left, right) THEN RuntimeError("Operands must be numbers.")
    ELSE IF ~IsZero(right) THEN Value(NumDiv(left, right))
    ELSE RuntimeError("Cannot divide by zero.")

\* The switch with a PLUS that stringifies both operands when one is a string.
BinaryResultCoercing(operator, left, right) ==
    CASE operator = "BANG_EQUAL" -> Value(Bool(~isEqual(left, right)))
      [] operator = "EQUAL_EQUAL" -> Value(Bool(isEqual(left, right)))
      [] operator = "GREATER" -> Numeric(left, right, Bool(NumLess(right, left)))
      [] operator = "GREATER_EQUAL" -> Numeric(left, right, Bool(~NumLess(left, right)))
      [] operator = "LESS" -> Numeric(left, right, Bool(NumLess(left, right)))
      [] operator = "LESS_EQUAL" -> Numeric(left, right, Bool(~NumLess(right, left)))
      [] operator = "MINUS" -> Numeric(left, right, NumSub(left, right))
      [] operator = "PLUS" ->
            IF left.t = "num" /\ right.t = "num" THEN Value(NumAdd(left, right))
            ELSE IF left.t = "str" \/ right.t = "str"
            THEN Value(Str(stringify(left, funs, classes, instances)
                           \o stringify(right, funs, classes, instances)))
            ELSE RuntimeError("Operands must be numbers or strings")
      [] operator = "SLASH" -> Slash(left, right)
      [] operator = "STAR" -> Numeric(left, right, NumMul(left, right))
      [] OTHER -> Value(Nil)

\* The switch of visitBinaryExpr on two evaluated operands.
BinaryResult(operator, left, right) ==
    CASE operator = "BANG_EQUAL" -> Value(Bool(~isEqual(left, right)))
      [] operator = "EQUAL_EQUAL" -> Value(Bool(isEqual(left, right)))
      [] operator = "GREATER" -> Numeric(left, right, Bool(NumLess(right, left)))
      [] operator = "GREATER_EQUAL" -> Numeric(left, right, Bool(~NumLess(left, right)))
      [] operator = "LESS" -> Numeric(left, right, Bool(NumLess(left, right)))
      [] operator = "LESS_EQUAL" -> Numeric(left, right, Bool(~NumLess(right, left)))
      [] operator = "MINUS" -> Numeric(left, right, NumSub(left, right))
      [] operator = "PLUS" ->
            IF left.t = "num" /\ right.t = "num" THEN Value(NumAdd(left, right))
            ELSE IF left.t = "str" /\ right.t = "str" THEN Value(Str(left.s \o right.s))
            ELSE RuntimeError("Operands must be two numbers or two strings.")
      [] operator = "SLASH" -> Slash(left, right)
      [] operator = "STAR" -> Numeric(left, right, NumMul(left, right))
      [] OTHER -> Value(Nil)

visitBinaryExpr ==
    /\ Interpreting
    /\ \/ /\ ctrl.c = "eval" /\ ctrl.expr.type = "Binary"
          /\ kont' = Push([k |-> "Binary", expr |-> ctrl.expr, hasLeft |-> FALSE, left |-> Nil])
          /\ ctrl' = Eval(ctrl.expr.left)
       \/ /\ ctrl.c = "value" /\ TopIs("Binary") /\ ~Top(kont).hasLeft
          /\ kont' = Replace([Top(kont) EXCEPT !.hasLeft = TRUE, !.left = ctrl.v])
          /\ ctrl' = Eval(Top(kont).expr.right)
       \/ /\ ctrl.c = "value" /\ TopIs("Binary") /\ Top(kont).hasLeft
          /\ kont' = Pop(kont)
          /\ ctrl' = BinaryResult(Top(kont).expr.operator, Top(kont).left, ctrl.v)
    /\ UNCHANGED <<exprFrame, heapVars>>
    /\ UNCHANGED scannerVars

visitLogicalExpr ==
    /\ Interpreting
    /\ \/ /\ ctrl.c = "eval" /\ ctrl.expr.type = "Logical"
          /\ kont' = Push([k |-> "Logical", expr |-> ctrl.expr])
          /\ ctrl' = Eval(ctrl.expr.left)
       \/ /\ ctrl.c = "value" /\ TopIs("Logical")
          /\ kont' = Pop(kont)
          /\ ctrl' = IF Top(kont).expr.operator = "OR"
                     THEN (IF isTruthy(ctrl.v) THEN ctrl ELSE Eval(Top(kont).expr.right))
                     ELSE (IF ~isTruthy(ctrl.v) THEN ctrl ELSE Eval(Top(kont).expr.right))
    /\ UNCHANGED <<exprFrame, heapVars>>
    /\ UNCHANGED scannerVars

\* visitCallExpr without the comparison of args.length with fun.arity().
CallCheckNoArity(callee, a, F, C) ==
    IF ~IsCallable(callee) THEN "Can only call functions and classes." ELSE ""

\* The two checks of visitCallExpr: "" when fun.call is reached, otherwise
\* the message of the RuntimeError.
CallCheck(callee, a, F, C) ==
    IF ~IsCallable(callee) THEN "Can only call functions and classes."
    ELSE IF Len(a) # arity(callee, F, C)
    THEN "Expected " \o ToString(arity(callee, F, C)) \o " arguments but got "
         \o ToString(Len(a)) \o "."
    ELSE ""

visitCallExpr ==
    /\ Interpreting
    /\ \/ /\ ctrl.c = "eval" /\ ctrl.expr.type = "Call"
          /\ kont' = Push([k |-> "Call", expr |-> ctrl.expr, hasCallee |-> FALSE,
                           callee |-> Nil, args |-> <<>>])
          /\ ctrl' = Eval(ctrl.expr.callee)
       \/ /\ ctrl.c = "value" /\ TopIs("Call")
          /\ LET frame == IF Top(kont).hasCallee
                          THEN [Top(kont) EXCEPT !.args = Append(@, ctrl.v)]
                          ELSE [Top(kont) EXCEPT !.hasCallee = TRUE, !.callee = ctrl.v]
                 check == CallCheck(frame.callee, frame.args, funs, classes)
             IN  IF Len(frame.args) < Len(frame.expr.args)
                 THEN /\ kont' = Replace(frame)
                      /\ ctrl' = Eval(frame.expr.args[Len(frame.args) + 1])
                 ELSE /\ kont' = Pop(kont)
                      /\ ctrl' = IF check = "" THEN Invoke(frame.callee, frame.args)
                                 ELSE RuntimeError(check)
    /\ UNCHANGED <<exprFrame, heapVars>>
    /\ UNCHANGED scannerVars

\* LoxInstance.get looking for the method before the field.
HasFieldUnlessMethod(C, I, instance, name) ==
    Has(I[instance].fields, name) /\ findMethod(C, I[instance].klass, name) = 0

\* LoxInstance.get: this.fields.has(name.lexeme), tested first.
HasField(C, I, instance, name) == Has(I[instance].fields, name)

\* LoxInstance.get, after the fields have been looked at: the method to bind
\* (0 when the code throws "Undefined property").
InstanceMethod(C, I, instance, name) == findMethod(C, I[instance].klass, name)

visitGetExpr ==
    /\ Interpreting
    /\ \/ /\ ctrl.c = "eval" /\ ctrl.expr.type = "Get"
          /\ kont' = Push([k |-> "Get", expr |-> ctrl.expr])
          /\ ctrl' = Eval(ctrl.expr.object)
          /\ UNCHANGED <<envs, funs>>
       \/ /\ ctrl.c = "value" /\ TopIs("Get")
          /\ kont' = Pop(kont)
          /\ LET name == Top(kont).expr.name
             IN  IF ctrl.v.t # "inst"
                 THEN /\ ctrl' = RuntimeError("Only instances have properties.")
                      /\ UNCHANGED <<envs, funs>>
                 ELSE IF HasField(classes, instances, ctrl.v.i, name)
                 THEN /\ ctrl' = Value(instances[ctrl.v.i].fields[name])
                      /\ UNCHANGED <<envs, funs>>
                 ELSE LET method == InstanceMethod(classes, instances, ctrl.v.i, name)
                          bound == bind(envs, funs, method, ctrl.v.i)
                      IN  IF method # 0
                          THEN /\ envs' = bound.envs
                               /\ funs' = bound.funs
                               /\ ctrl' = Value(FunV(bound.f))
                          ELSE /\ ctrl' = RuntimeError("Undefined property '" \o name \o "'")
                               /\ UNCHANGED <<envs, funs>>
    /\ UNCHANGED <<exprFrame, classes, instances>>
    /\ UNCHANGED scannerVars

visitSetExpr ==
    /\ Interpreting
    /\ \/ /\ ctrl.c = "eval" /\ ctrl.expr.type = "Set"
          /\ kont' = Push([k |-> "Set", expr |-> ctrl.expr, object |-> 0])
          /\ ctrl' = Eval(ctrl.expr.object)
          /\ UNCHANGED instances
       \/ /\ ctrl.c = "value" /\ TopIs("Set") /\ Top(kont).object = 0
          /\ IF ctrl.v.t # "inst"
             THEN /\ ctrl' = RuntimeError("Only instances have fields.")
                  /\ kont' = Pop(kont)
             ELSE /\ ctrl' = Eval(Top(kont).expr.value)
                  /\ kont' = Replace([Top(kont) EXCEPT !.object = ctrl.v.i])
          /\ UNCHANGED instances
       \/ /\ ctrl.c = "value" /\ TopIs("Set") /\ Top(kont).object # 0
          /\ instances' = [instances EXCEPT ![Top(kont).object].fields =
                                                Put(@, Top(kont).expr.name, ctrl.v)]
          /\ kont' = Pop(kont)
          /\ UNCHANGED ctrl
    /\ UNCHANGED <<exprFrame, envs, funs, classes>>
    /\ UNCHANGED scannerVars

\* `this' read in the environment that holds `super'.
SuperThisDistanceSame(distance) == distance

\* The distance at which visitSuperExpr reads `this'.
SuperThisDistance(distance) == distance - 1

visitSuperExpr ==
    /\ Interpreting
    /\ ctrl.c = "eval" /\ ctrl.expr.type = "Super"
    /\ LET distance == locals[ctrl.expr.id]
           superclass == getAt(envs, environment, distance, "super")
           object == getAt(envs, environment, SuperThisDistance(distance), "this")
           method == IF superclass.t = "class"
                     THEN findMethod(classes, superclass.c, ctrl.expr.method) ELSE 0
           bound == bind(envs, funs, method, object.i)
       IN  IF superclass.t # "class" \/ (method # 0 /\ object.t # "inst")
           THEN /\ ctrl' = TypeError         \* a member of undefined is read
                /\ UNCHANGED <<envs, funs>>
           ELSE IF method = 0
           THEN /\ ctrl' = RuntimeError("Undefined property '" \o ctrl.expr.method \o "'.")
                /\ UNCHANGED <<envs, funs>>
           ELSE /\ envs' = bound.envs
                /\ funs' = bound.funs
                /\ ctrl' = Value(FunV(bound.f))
    /\ UNCHANGED <<exprFrame, classes, instances, kont>>
    /\ UNCHANGED scannerVars

(***************************************************************************)
(* The driver: index.ts, run, runFile, runPrompt, interpret.               *)
(***************************************************************************)
\* reportError: console.error and hadError = true, once per message.
reportError(log, run, messages) ==
    log \o [i \in 1..Len(messages) |-> [run |-> run, kind |-> "Error", message |-> messages[i]]]

\* reportRuntimeError: console.error; the caller sets hadRuntimeError.
reportRuntimeError(log, run, message) ==
    Append(log, [run |-> run, kind |-> "Runtime error", message |-> message])

evalVars == <<environment, heapVars, ctrl, kont>>

main ==
    /\ pc = "main"
    /\ IF args > 1
       THEN /\ stderr' = Append(stderr, [run |-> 0, kind |-> "Usage", message |-> "Usage: tslox [path-to-script]"])
            /\ exitCode' = 64
            /\ pc' = "exited"
            /\ UNCHANGED lineNo
       ELSE IF args = 1
       THEN /\ pc' = "run"
            /\ lineNo' = 1
            /\ UNCHANGED <<stderr, exitCode>>
       ELSE /\ pc' = "prompt"
            /\ UNCHANGED <<stderr, exitCode, lineNo>>
    /\ UNCHANGED <<args, input, hadError, hadRuntimeError, stdout, stages, locals, evalVars>>
    /\ UNCHANGED scannerVars

\* The line read at the prompt ends the loop when it is empty or a quit word,
\* and so does the end of the input.
requestCommandLinePrompt ==
    /\ pc = "prompt"
    /\ IF lineNo + 1 > Len(input) \/ input[lineNo + 1].kind = "quit"
       THEN /\ pc' = "exited"
            /\ exitCode' = 0
            /\ UNCHANGED lineNo
       ELSE /\ pc' = "run"
            /\ lineNo' = lineNo + 1
            /\ UNCHANGED exitCode
    /\ UNCHANGED <<args, input, hadError, hadRuntimeError, stderr, stdout, stages, locals, evalVars>>
    /\ UNCHANGED scannerVars

\* run: scanner.scanTokens(), comments filtered out.
runScan ==
    /\ pc = "run"
    /\ stages' = <<"scan">>
    /\ stderr' = reportError(stderr, lineNo, input[lineNo].scanErrors)
    /\ hadError' = (hadError \/ Len(input[lineNo].scanErrors) > 0)
    /\ pc' = "scanned"
    /\ UNCHANGED <<args, input, lineNo, hadRuntimeError, exitCode, stdout, locals, evalVars>>
    /\ UNCHANGED scannerVars

\* run: parser.parse().
runParse ==
    /\ pc = "scanned"
    /\ input[lineNo].kind # "tokens"
    /\ stages' = Append(stages, "parse")
    /\ stderr' = reportError(stderr, lineNo, input[lineNo].parseErrors)
    /\ hadError' = (hadError \/ Len(input[lineNo].parseErrors) > 0)
    /\ pc' = "parsed"
    /\ UNCHANGED <<args, input, lineNo, hadRuntimeError, exitCode, stdout, locals, evalVars>>
    /\ UNCHANGED scannerVars

\* The first `if (hadError) return' of run.
SyntaxGate(flag) == flag

\* run without its second `if (hadError) return'.
ResolutionGateOpen(flag) == FALSE

\* The second `if (hadError) return' of run.
ResolutionGate(flag) == flag

\* run: stop after a syntax error, otherwise resolve.
runResolve ==
    /\ pc = "parsed"
    /\ IF SyntaxGate(hadError)
       THEN /\ pc' = "ran"
            /\ UNCHANGED <<stages, stderr, hadError, locals>>
       ELSE LET R == resolveStatementList(NewResolver, input[lineNo].statements)
            IN  /\ stages' = Append(stages, "resolve")
                /\ locals' = InterpreterResolveLocal(locals, R.locals)
                /\ stderr' = reportError(stderr, lineNo, R.errors)
                /\ hadError' = (hadError \/ Len(R.errors) > 0)
                /\ pc' = "resolved"
    /\ UNCHANGED <<args, input, lineNo, hadRuntimeError, exitCode, stdout, evalVars>>
    /\ UNCHANGED scannerVars

\* run: stop after a resolution error, otherwise call interpreter.interpret.
runInterpret ==
    /\ pc = "resolved"
    /\ IF ResolutionGate(hadError)
       THEN /\ pc' = "ran"
            /\ UNCHANGED <<stages, ctrl, kont>>
       ELSE /\ stages' = Append(stages, "interpret")
            /\ pc' = "interpret"
            /\ kont' = <<[k |-> "interpret", i |-> 0]>>
            /\ ctrl' = Done
    /\ UNCHANGED <<args, input, lineNo, hadError, hadRuntimeError, exitCode, stderr, stdout,
                   locals, environment, heapVars>>
    /\ UNCHANGED scannerVars

\* Interpreter.interpret: the forEach over the statements and the catch.
interpret ==
    /\ Interpreting
    /\ TopIs("interpret")
    /\ \/ /\ ctrl.c = "done"
          /\ Top(kont).i < Len(input[lineNo].statements)
          /\ kont' = Replace([Top(kont) EXCEPT !.i = @ + 1])
          /\ ctrl' = Exec(input[lineNo].statements[Top(kont).i + 1])
          /\ UNCHANGED <<pc, stderr, hadRuntimeError, exitCode>>
       \/ /\ ctrl.c = "done"
          /\ Top(kont).i = Len(input[lineNo].statements)
          /\ kont' = <<>>
          /\ ctrl' = Idle
          /\ pc' = "ran"
          /\ UNCHANGED <<stderr, hadRuntimeError, exitCode>>
       \/ /\ ctrl.c = "throw" /\ ctrl.kind = "RuntimeError"
          /\ stderr' = reportRuntimeError(stderr, lineNo, ctrl.message)
          /\ hadRuntimeError' = TRUE
          /\ kont' = <<>>
          /\ ctrl' = Idle
          /\ pc' = "ran"
          /\ UNCHANGED exitCode
       \/ /\ ctrl.c = "throw" /\ ctrl.kind # "RuntimeError"    \* rethrown: the process dies
          /\ kont' = <<>>
          /\ ctrl' = Idle
          /\ pc' = "exited"
          /\ exitCode' = 1
          /\ UNCHANGED <<stderr, hadRuntimeError>>
    /\ UNCHANGED <<args, input, lineNo, hadError, stdout, stages, locals, environment, heapVars>>
    /\ UNCHANGED scannerVars

\* runFile without `if (hadRuntimeError) return process.exit(70)'.
runFileExitCompileOnly(compileError, runtimeError) == IF compileError THEN 65 ELSE 0

\* The exit code runFile chooses after run returned (0: the process ends normally).
runFileExit(compileError, runtimeError) ==
    IF compileError THEN 65
    ELSE IF runtimeError THEN 70
    ELSE 0

runFile ==
    /\ pc = "ran"
    /\ args = 1
    /\ exitCode' = runFileExit(hadError, hadRuntimeError)
    /\ pc' = "exited"
    /\ UNCHANGED <<args, input, lineNo, hadError, hadRuntimeError, stderr, stdout, stages,
                   locals, evalVars>>
    /\ UNCHANGED scannerVars

\* runPrompt without `hadError = false'.
PromptResetKeeps(flag) == flag

\* What runPrompt assigns to hadError after a line has been run.
PromptReset(flag) == FALSE

\* runPrompt, after run(line): a blank line, then hadError = false.
runPrompt ==
    /\ pc = "ran"
    /\ args = 0
    /\ stdout' = Append(stdout, [run |-> lineNo, src |-> "prompt", text |-> ""])
    /\ hadError' = PromptReset(hadError)
    /\ pc' = "prompt"
    /\ UNCHANGED <<args, input, lineNo, hadRuntimeError, exitCode, stderr, stages, locals, evalVars>>
    /\ UNCHANGED scannerVars

(***************************************************************************)
(* Inputs.  Each is what the scanner and the parser make of a source text: *)
(* the errors they report and the statements parse() returns.  Every       *)
(* Variable, Assign, This and Super node has its own id.                   *)
(***************************************************************************)
Source(statements) ==
    [kind |-> "source", scanErrors |-> <<>>, parseErrors |-> <<>>, statements |-> statements]

Quit == [kind |-> "quit", scanErrors |-> <<>>, parseErrors |-> <<>>, statements |-> <<>>]

N(n) == Literal(Num(n))

S(s) == Literal(Str(s))

\* var a = 1; { var a = 2; print a; } print a;
ProgScope == Source(<<
    VarStmt("a", N(1)),
    BlockStmt(<<VarStmt("a", N(2)), PrintStmt(Variable(101, "a"))>>),
    PrintStmt(Variable(102, "a"))>>)

\* fun make() { var i = 0; fun tick() { i = i + 1; return i; } return tick; }
\* var t = make(); print t(); print t(); print t();
ProgCounter == Source(<<
    FunStmt("make", <<>>, <<
        VarStmt("i", N(0)),
        FunStmt("tick", <<>>, <<
            ExpressionStmt(Assign(201, "i", Binary(Variable(202, "i"), "PLUS", N(1)))),
            ReturnStmt(Variable(203, "i"))>>),
        ReturnStmt(Variable(204, "tick"))>>),
    VarStmt("t", Call(Variable(205, "make"), <<>>)),
    PrintStmt(Call(Variable(206, "t"), <<>>)),
    PrintStmt(Call(Variable(207, "t"), <<>>)),
    PrintStmt(Call(Variable(208, "t"), <<>>))>>)

\* class A { greet() { print "hi " + this.name; } }
\* var a = A(); a.name = "Lox"; a.greet();
ProgGreet == Source(<<
    ClassStmt("A", Null, <<
        FunStmt("greet", <<>>, <<
            PrintStmt(Binary(S("hi "), "PLUS", Get(This(301), "name")))>>)>>),
    VarStmt("a", Call(Variable(302, "A"), <<>>)),
    ExpressionStmt(Set(Variable(303, "a"), "name", S("Lox"))),
    ExpressionStmt(Call(Get(Variable(304, "a"), "greet"), <<>>))>>)

\* class A { f() { print "A"; } who() { print this.n; } }
\* class B < A { f() { { super.f(); } super.who(); print "B"; } }
\* var b = B(); b.n = 7; b.f();
ProgSuper == Source(<<
    ClassStmt("A", Null, <<
        FunStmt("f", <<>>, <<PrintStmt(S("A"))>>),
        FunStmt("who", <<>>, <<PrintStmt(Get(This(401), "n"))>>)>>),
    ClassStmt("B", Variable(402, "A"), <<
        FunStmt("f", <<>>, <<
            BlockStmt(<<ExpressionStmt(Call(Super(403, "f"), <<>>))>>),
            ExpressionStmt(Call(Super(404, "who"), <<>>)),
            PrintStmt(S("B"))>>)>>),
    VarStmt("b", Call(Variable(405, "B"), <<>>)),
    ExpressionStmt(Set(Variable(406, "b"), "n", N(7))),
    ExpressionStmt(Call(Get(Variable(407, "b"), "f"), <<>>))>>)

\* var g = 0; fun f(n) { { g = 1; return 1 / n; } }
\* print "a"; { var k = 2; print f(0); } print "never";
ProgDeepError == Source(<<
    VarStmt("g", N(0)),
    FunStmt("f", <<"n">>, <<
        BlockStmt(<<
            ExpressionStmt(Assign(501, "g", N(1))),
            ReturnStmt(Binary(N(1), "SLASH", Variable(502, "n")))>>)>>),
    PrintStmt(S("a")),
    BlockStmt(<<VarStmt("k", N(2)), PrintStmt(Call(Variable(503, "f"), <<N(0)>>))>>),
    PrintStmt(S("never"))>>)

\* fun f(a) { print "body"; } f(1, 2); print "never";
ProgArity == Source(<<
    FunStmt("f", <<"a">>, <<PrintStmt(S("body"))>>),
    ExpressionStmt(Call(Variable(601, "f"), <<N(1), N(2)>>)),
    PrintStmt(S("never"))>>)

\* fun f(a, b) { print a + b; } f(1, 2); var s = "text"; s(f(3, 4));
ProgNotCallable == Source(<<
    FunStmt("f", <<"a", "b">>, <<PrintStmt(Binary(Variable(701, "a"), "PLUS", Variable(702, "b")))>>),
    ExpressionStmt(Call(Variable(703, "f"), <<N(1), N(2)>>)),
    VarStmt("s", S("text")),
    ExpressionStmt(Call(Variable(704, "s"), <<Call(Variable(705, "f"), <<N(3), N(4)>>)>>))>>)

\* class P { init(x) { print "init"; this.x = x; } } print P(1).x; P();
ProgClassArity == Source(<<
    ClassStmt("P", Null, <<
        FunStmt("init", <<"x">>, <<
            PrintStmt(S("init")),
            ExpressionStmt(Set(This(801), "x", Variable(802, "x")))>>)>>),
    PrintStmt(Get(Call(Variable(803, "P"), <<N(1)>>), "x")),
    ExpressionStmt(Call(Variable(804, "P"), <<>>))>>)

\* class C { m(o) { return o.who() + this.n; } who() { return this.n; } }
\* var a = C(); a.n = 1; var b = C(); b.n = 2;
\* print a.m(b); var w = a.who; b.w = w; print b.w();
ProgMethods == Source(<<
    ClassStmt("C", Null, <<
        FunStmt("m", <<"o">>, <<
            ReturnStmt(Binary(Call(Get(Variable(901, "o"), "who"), <<>>), "PLUS",
                              Get(This(913), "n")))>>),
        FunStmt("who", <<>>, <<ReturnStmt(Get(This(902), "n"))>>)>>),
    VarStmt("a", Call(Variable(903, "C"), <<>>)),
    ExpressionStmt(Set(Variable(904, "a"), "n", N(1))),
    VarStmt("b", Call(Variable(905, "C"), <<>>)),
    ExpressionStmt(Set(Variable(906, "b"), "n", N(2))),
    PrintStmt(Call(Get(Variable(907, "a"), "m"), <<Variable(908, "b")>>)),
    VarStmt("w", Get(Variable(909, "a"), "who")),
    ExpressionStmt(Set(Variable(910, "b"), "w", Variable(911, "w"))),
    PrintStmt(Call(Get(Variable(912, "b"), "w"), <<>>))>>)

\* fun f() { while (true) { { return 1; } print "no"; } print "no"; }
\* fun g() { } print f(); print g();
ProgReturn == Source(<<
    FunStmt("f", <<>>, <<
        WhileStmt(Literal(Bool(TRUE)), BlockStmt(<<
            BlockStmt(<<ReturnStmt(N(1))>>),
            PrintStmt(S("no"))>>)),
        PrintStmt(S("no"))>>),
    FunStmt("g", <<>>, <<>>),
    PrintStmt(Call(Variable(1001, "f"), <<>>)),
    PrintStmt(Call(Variable(1002, "g"), <<>>))>>)

\* class K { init() { this.x = 1; if (true) return; print "no"; } }
\* class J { init() { this.y = 2; } }
\* var k = K(); print k.init() == k; var j = J(); print j.init() == j;
ProgInit == Source(<<
    ClassStmt("K", Null, <<
        FunStmt("init", <<>>, <<
            ExpressionStmt(Set(This(1101), "x", N(1))),
            IfStmt(Literal(Bool(TRUE)), ReturnStmt(Null), Null),
            PrintStmt(S("no"))>>)>>),
    ClassStmt("J", Null, <<
        FunStmt("init", <<>>, <<ExpressionStmt(Set(This(1102), "y", N(2)))>>)>>),
    VarStmt("k", Call(Variable(1103, "K"), <<>>)),
    PrintStmt(Binary(Call(Get(Variable(1104, "k"), "init"), <<>>), "EQUAL_EQUAL", Variable(1105, "k"))),
    VarStmt("j", Call(Variable(1106, "J"), <<>>)),
    PrintStmt(Binary(Call(Get(Variable(1107, "j"), "init"), <<>>), "EQUAL_EQUAL", Variable(1108, "j")))>>)

\* { var a = a = 1; print a; }
ProgAssignInInitializer == Source(<<
    BlockStmt(<<
        VarStmt("a", Assign(1201, "a", N(1))),
        PrintStmt(Variable(1202, "a"))>>)>>)

\* print "x"; return 1;
ProgTopReturn == Source(<<PrintStmt(S("x")), ReturnStmt(N(1))>>)

\* print "survivor"; print 1 +; print nil.x;
\* (the parser reports the second statement and drops it)
ProgParseError ==
    [kind |-> "source", scanErrors |-> <<>>, parseErrors |-> <<"Expected expression">>,
     statements |-> <<PrintStmt(S("survivor")), PrintStmt(Get(Literal(Nil), "x"))>>]

\* print "x"; @ print y;
\* (the scanner reports the character and goes on)
ProgScanError ==
    [kind |-> "source", scanErrors |-> <<"Unexpected character: @">>, parseErrors |-> <<>>,
     statements |-> <<PrintStmt(S("x")), PrintStmt(Variable(1501, "y"))>>]

\* if (!(clock() < 0) and true) print -1; else print 2;
\* if (nil or false) print 3;
ProgLogic == Source(<<
    IfStmt(Logical(Unary("BANG", Grouping(Binary(Call(Variable(1601, "clock"), <<>>), "LESS", N(0)))),
                   "AND", Literal(Bool(TRUE))),
           PrintStmt(Unary("MINUS", N(1))),
           PrintStmt(N(2))),
    IfStmt(Logical(Literal(Nil), "OR", Literal(Bool(FALSE))), PrintStmt(N(3)), Null)>>)

\* { var x = 1; class B < x { } } print "never";
ProgBadSuperclass == Source(<<
    BlockStmt(<<VarStmt("x", N(1)), ClassStmt("B", Variable(1701, "x"), <<>>)>>),
    PrintStmt(S("never"))>>)

\* var i = 0; while (i < 2) { i = i + 1; } print i; print y;
ProgLoop == Source(<<
    VarStmt("i", N(0)),
    WhileStmt(Binary(Variable(1801, "i"), "LESS", N(2)),
              BlockStmt(<<ExpressionStmt(Assign(1802, "i", Binary(Variable(1803, "i"), "PLUS", N(1))))>>)),
    PrintStmt(Variable(1804, "i")),
    PrintStmt(Variable(1805, "y"))>>)

\* var x; x = 1; q = 2;
ProgAssignGlobal == Source(<<
    VarStmt("x", Null),
    ExpressionStmt(Assign(1901, "x", N(1))),
    ExpressionStmt(Assign(1902, "q", N(2)))>>)

\* var a = "global";
\* { fun show() { print a; } show(); var a = "block"; show(); print a; }
ProgStatic == Source(<<
    VarStmt("a", S("global")),
    BlockStmt(<<
        FunStmt("show", <<>>, <<PrintStmt(Variable(2001, "a"))>>),
        ExpressionStmt(Call(Variable(2002, "show"), <<>>)),
        VarStmt("a", S("block")),
        ExpressionStmt(Call(Variable(2003, "show"), <<>>)),
        PrintStmt(Variable(2004, "a"))>>)>>)

\* print "x"; { var a = a; }
ProgOwnInitializer == Source(<<
    PrintStmt(S("x")),
    BlockStmt(<<VarStmt("a", Variable(2501, "a"))>>)>>)

\* var a = 1; { var a = a + 1; print a; }
ProgShadowInitializer == Source(<<
    VarStmt("a", N(1)),
    BlockStmt(<<VarStmt("a", Binary(Variable(2601, "a"), "PLUS", N(1))),
                PrintStmt(Variable(2602, "a"))>>)>>)

\* fun f(p) { if (p) { var b = p; print b; } else var c = (c); }
\* (the parser accepts no var statement as a branch: the else branch is a block)
ProgBranchInitializer == Source(<<
    FunStmt("f", <<"p">>, <<
        IfStmt(Variable(2701, "p"),
               BlockStmt(<<VarStmt("b", Variable(2702, "p")), PrintStmt(Variable(2703, "b"))>>),
               BlockStmt(<<VarStmt("c", Grouping(Variable(2704, "c")))>>))>>)>>)

\* var b = 1; var b = b; print b; var a = a; print "never";
ProgGlobalInitializer == Source(<<
    VarStmt("b", N(1)),
    VarStmt("b", Variable(2801, "b")),
    PrintStmt(Variable(2802, "b")),
    VarStmt("a", Variable(2803, "a")),
    PrintStmt(S("never"))>>)

\* class A { init() { return 1; } } print "never";
ProgInitReturnValue == Source(<<
    ClassStmt("A", Null, <<FunStmt("init", <<>>, <<ReturnStmt(N(1))>>)>>),
    PrintStmt(S("never"))>>)

\* class A { init() { fun f() { return 1; } this.v = f(); } } print A().v;
ProgInitNested == Source(<<
    ClassStmt("A", Null, <<
        FunStmt("init", <<>>, <<
            FunStmt("f", <<>>, <<ReturnStmt(N(1))>>),
            ExpressionStmt(Set(This(2901), "v", Call(Variable(2902, "f"), <<>>)))>>)>>),
    PrintStmt(Get(Call(Variable(2903, "A"), <<>>), "v"))>>)

\* class A { init() { fun f() { return 1; } while (false) { return 2; } } }
ProgReturnRestored == Source(<<
    ClassStmt("A", Null, <<
        FunStmt("init", <<>>, <<
            FunStmt("f", <<>>, <<ReturnStmt(N(1))>>),
            WhileStmt(Literal(Bool(FALSE)), BlockStmt(<<ReturnStmt(N(2))>>))>>)>>)>>)

\* fun init() { return 1; } print init(); if (true) return;
ProgReturnAfterFun == Source(<<
    FunStmt("init", <<>>, <<ReturnStmt(N(1))>>),
    PrintStmt(Call(Variable(3001, "init"), <<>>)),
    IfStmt(Literal(Bool(TRUE)), ReturnStmt(Null), Null)>>)

\* fun f() { print this; } f();
ProgThisOutside == Source(<<
    FunStmt("f", <<>>, <<PrintStmt(This(3101))>>),
    ExpressionStmt(Call(Variable(3102, "f"), <<>>))>>)

\* print "x"; super.m();
ProgSuperOutside == Source(<<
    PrintStmt(S("x")),
    ExpressionStmt(Call(Super(3201, "m"), <<>>))>>)

\* class A { m() { super.m(); } } A().m();
ProgSuperNoSuperclass == Source(<<
    ClassStmt("A", Null, <<
        FunStmt("m", <<>>, <<ExpressionStmt(Call(Super(3301, "m"), <<>>))>>)>>),
    ExpressionStmt(Call(Get(Call(Variable(3302, "A"), <<>>), "m"), <<>>))>>)

\* class A { n() { print "A"; } }
\* class B < A { m() { class C { n() { super.n(); } } } }
ProgNestedClassSuper == Source(<<
    ClassStmt("A", Null, <<FunStmt("n", <<>>, <<PrintStmt(S("A"))>>)>>),
    ClassStmt("B", Variable(3401, "A"), <<
        FunStmt("m", <<>>, <<
            ClassStmt("C", Null, <<
                FunStmt("n", <<>>, <<ExpressionStmt(Call(Super(3402, "n"), <<>>))>>)>>)>>)>>)>>)

\* class A { m() { print "A"; } }
\* class B < A { m() { class C { n() { return this; } } super.m(); print this == C().n(); } }
\* B().m();
ProgClassRestored == Source(<<
    ClassStmt("A", Null, <<FunStmt("m", <<>>, <<PrintStmt(S("A"))>>)>>),
    ClassStmt("B", Variable(3501, "A"), <<
        FunStmt("m", <<>>, <<
            ClassStmt("C", Null, <<FunStmt("n", <<>>, <<ReturnStmt(This(3502))>>)>>),
            ExpressionStmt(Call(Super(3503, "m"), <<>>)),
            PrintStmt(Binary(This(3504), "EQUAL_EQUAL",
                             Call(Get(Call(Variable(3505, "C"), <<>>), "n"), <<>>)))>>)>>),
    ExpressionStmt(Call(Get(Call(Variable(3506, "B"), <<>>), "m"), <<>>))>>)

\* class A { m() { return this; } } print this;
ProgThisAfterClass == Source(<<
    ClassStmt("A", Null, <<FunStmt("m", <<>>, <<ReturnStmt(This(3601))>>)>>),
    PrintStmt(This(3602))>>)

\* print 1 + 2; print "a" + "b"; print "n=" + 1; print "never";
ProgPlus == Source(<<
    PrintStmt(Binary(N(1), "PLUS", N(2))),
    PrintStmt(Binary(S("a"), "PLUS", S("b"))),
    PrintStmt(Binary(S("n="), "PLUS", N(1))),
    PrintStmt(S("never"))>>)

\* print 7 / 2 + 1 / 2; print 2 + "x";
ProgPlusNumStr == Source(<<
    PrintStmt(Binary(Binary(N(7), "SLASH", N(2)), "PLUS", Binary(N(1), "SLASH", N(2)))),
    PrintStmt(Binary(N(2), "PLUS", S("x")))>>)

\* print nil + true;
ProgPlusNil == Source(<<PrintStmt(Binary(Literal(Nil), "PLUS", Literal(Bool(TRUE))))>>)

\* fun r() { print "right"; return 1; } print "a" < r();
ProgOperands == Source(<<
    FunStmt("r", <<>>, <<PrintStmt(S("right")), ReturnStmt(N(1))>>),
    PrintStmt(Binary(S("a"), "LESS", Call(Variable(3701, "r"), <<>>)))>>)

\* print 2 * 3 - 1 >= 5; print 2 > 1; print 1 <= 0; print 7 / 2; print 1 / 0;
ProgDivZero == Source(<<
    PrintStmt(Binary(Binary(Binary(N(2), "STAR", N(3)), "MINUS", N(1)), "GREATER_EQUAL", N(5))),
    PrintStmt(Binary(N(2), "GREATER", N(1))),
    PrintStmt(Binary(N(1), "LESS_EQUAL", N(0))),
    PrintStmt(Binary(N(7), "SLASH", N(2))),
    PrintStmt(Binary(N(1), "SLASH", N(0)))>>)

\* print 1 / -0;
ProgDivNegZero == Source(<<PrintStmt(Binary(N(1), "SLASH", Unary("MINUS", N(0))))>>)

\* print nil / 0;
ProgDivNil == Source(<<PrintStmt(Binary(Literal(Nil), "SLASH", N(0)))>>)

\* print 1 * true;
ProgStarBool == Source(<<PrintStmt(Binary(N(1), "STAR", Literal(Bool(TRUE))))>>)

\* print 1 - "1";
ProgMinusStr == Source(<<PrintStmt(Binary(N(1), "MINUS", S("1")))>>)

\* class A { m() { return "method"; } }  class B < A { }
\* var b = B(); print b.m(); b.m = "field"; print b.m; print b.m = 2; print b.m; print b.x;
ProgFieldShadow == Source(<<
    ClassStmt("A", Null, <<FunStmt("m", <<>>, <<ReturnStmt(S("method"))>>)>>),
    ClassStmt("B", Variable(3801, "A"), <<>>),
    VarStmt("b", Call(Variable(3802, "B"), <<>>)),
    PrintStmt(Call(Get(Variable(3803, "b"), "m"), <<>>)),
    ExpressionStmt(Set(Variable(3804, "b"), "m", S("field"))),
    PrintStmt(Get(Variable(3805, "b"), "m")),
    PrintStmt(Set(Variable(3806, "b"), "m", N(2))),
    PrintStmt(Get(Variable(3807, "b"), "m")),
    PrintStmt(Get(Variable(3808, "b"), "x"))>>)

\* print "str".x;
ProgGetNonInstance == Source(<<PrintStmt(Get(S("str"), "x"))>>)

\* fun v() { print "value"; return 1; } class A { } A.x = v();
ProgSetNonInstance == Source(<<
    FunStmt("v", <<>>, <<PrintStmt(S("value")), ReturnStmt(N(1))>>),
    ClassStmt("A", Null, <<>>),
    ExpressionStmt(Set(Variable(3901, "A"), "x", Call(Variable(3902, "v"), <<>>)))>>)

\* class A { m() { return this.n; } }
\* class B < A { m() { return "B"; } t() { fun g() { return super.m(); } return g(); } }
\* class C < B { m() { return "C"; } }
\* var c = C(); c.n = 7; print c.t(); print c.m();
ProgSuperChain == Source(<<
    ClassStmt("A", Null, <<FunStmt("m", <<>>, <<ReturnStmt(Get(This(4001), "n"))>>)>>),
    ClassStmt("B", Variable(4002, "A"), <<
        FunStmt("m", <<>>, <<ReturnStmt(S("B"))>>),
        FunStmt("t", <<>>, <<
            FunStmt("g", <<>>, <<ReturnStmt(Call(Super(4003, "m"), <<>>))>>),
            ReturnStmt(Call(Variable(4004, "g"), <<>>))>>)>>),
    ClassStmt("C", Variable(4005, "B"), <<FunStmt("m", <<>>, <<ReturnStmt(S("C"))>>)>>),
    VarStmt("c", Call(Variable(4006, "C"), <<>>)),
    ExpressionStmt(Set(Variable(4007, "c"), "n", N(7))),
    PrintStmt(Call(Get(Variable(4008, "c"), "t"), <<>>)),
    PrintStmt(Call(Get(Variable(4009, "c"), "m"), <<>>))>>)

\* class A { } class B < A { q() { return 1; } t() { return super.q(); } }
\* print B().t();
ProgSuperMissing == Source(<<
    ClassStmt("A", Null, <<>>),
    ClassStmt("B", Variable(4101, "A"), <<
        FunStmt("q", <<>>, <<ReturnStmt(N(1))>>),
        FunStmt("t", <<>>, <<ReturnStmt(Call(Super(4102, "q"), <<>>))>>)>>),
    PrintStmt(Call(Get(Call(Variable(4103, "B"), <<>>), "t"), <<>>))>>)

\* var a = "g"; { var a = "b"; { a = "c"; print a; } print a; } print a; print a = "d";
ProgAssignShadowed == Source(<<
    VarStmt("a", S("g")),
    BlockStmt(<<
        VarStmt("a", S("b")),
        BlockStmt(<<
            ExpressionStmt(Assign(4201, "a", S("c"))),
            PrintStmt(Variable(4202, "a"))>>),
        PrintStmt(Variable(4203, "a"))>>),
    PrintStmt(Variable(4204, "a")),
    PrintStmt(Assign(4205, "a", S("d")))>>)

\* print "before"; var q = q = 1; print q;
ProgAssignGlobalInitializer == Source(<<
    PrintStmt(S("before")),
    VarStmt("q", Assign(4301, "q", N(1))),
    PrintStmt(Variable(4302, "q"))>>)

\* fun t(x) { print x; return x; }
\* print 0 or t("a"); print "" or t("b"); print nil or t(0); print false or t(nil);
\* print nil and t("c"); print false and t("d"); print 0 and t(""); print "" and t(false);
ProgShortCircuit == Source(<<
    FunStmt("t", <<"x">>, <<PrintStmt(Variable(4401, "x")), ReturnStmt(Variable(4402, "x"))>>),
    PrintStmt(Logical(N(0), "OR", Call(Variable(4403, "t"), <<S("a")>>))),
    PrintStmt(Logical(S(""), "OR", Call(Variable(4404, "t"), <<S("b")>>))),
    PrintStmt(Logical(Literal(Nil), "OR", Call(Variable(4405, "t"), <<N(0)>>))),
    PrintStmt(Logical(Literal(Bool(FALSE)), "OR", Call(Variable(4406, "t"), <<Literal(Nil)>>))),
    PrintStmt(Logical(Literal(Nil), "AND", Call(Variable(4407, "t"), <<S("c")>>))),
    PrintStmt(Logical(Literal(Bool(FALSE)), "AND", Call(Variable(4408, "t"), <<S("d")>>))),
    PrintStmt(Logical(N(0), "AND", Call(Variable(4409, "t"), <<S("")>>))),
    PrintStmt(Logical(S(""), "AND", Call(Variable(4410, "t"), <<Literal(Bool(FALSE))>>)))>>)

\* var a = "global";
\* { fun set() { a = "set"; } var a = "block"; set(); print a; } print a;
ProgStaticAssign == Source(<<
    VarStmt("a", S("global")),
    BlockStmt(<<
        FunStmt("set", <<>>, <<ExpressionStmt(Assign(4501, "a", S("set")))>>),
        VarStmt("a", S("block")),
        ExpressionStmt(Call(Variable(4502, "set"), <<>>)),
        PrintStmt(Variable(4503, "a"))>>),
    PrintStmt(Variable(4504, "a"))>>)

\* { var a = "outer";
\*   { fun show() { print a; } show(); var a = "inner"; show(); print a; } }
ProgStaticLocal == Source(<<
    BlockStmt(<<
        VarStmt("a", S("outer")),
        BlockStmt(<<
            FunStmt("show", <<>>, <<PrintStmt(Variable(4511, "a"))>>),
            ExpressionStmt(Call(Variable(4512, "show"), <<>>)),
            VarStmt("a", S("inner")),
            ExpressionStmt(Call(Variable(4513, "show"), <<>>)),
            PrintStmt(Variable(4514, "a"))>>)>>)>>)

Files == <<ProgScope, ProgCounter, ProgGreet, ProgSuper, ProgDeepError, ProgArity,
           ProgNotCallable, ProgClassArity, ProgMethods, ProgReturn, ProgInit,
           ProgAssignInInitializer, ProgTopReturn, ProgParseError, ProgScanError,
           ProgLogic, ProgBadSuperclass, ProgLoop, ProgAssignGlobal, ProgStatic,
           ProgOwnInitializer, ProgShadowInitializer, ProgBranchInitializer, ProgGlobalInitializer,
           ProgInitReturnValue, ProgInitNested, ProgReturnRestored, ProgReturnAfterFun,
           ProgThisOutside, ProgSuperOutside, ProgSuperNoSuperclass, ProgNestedClassSuper,
           ProgClassRestored, ProgThisAfterClass,
           ProgPlus, ProgPlusNumStr, ProgPlusNil, ProgOperands, ProgDivZero, ProgDivNegZero,
           ProgDivNil, ProgStarBool, ProgMinusStr,
           ProgFieldShadow, ProgGetNonInstance, ProgSetNonInstance,
           ProgSuperChain, ProgSuperMissing,
           ProgAssignShadowed, ProgAssignGlobalInitializer,
           ProgShortCircuit,
           ProgStaticAssign, ProgStaticLocal>>

\* fun f() { return 1; }
LineFun == Source(<<FunStmt("f", <<>>, <<ReturnStmt(N(1))>>)>>)

\* print f();
LineCall == Source(<<PrintStmt(Call(Variable(2101, "f"), <<>>))>>)

\* print "s"; print ;
LineParseError ==
    [kind |-> "source", scanErrors |-> <<>>, parseErrors |-> <<"Expected expression">>,
     statements |-> <<PrintStmt(S("s"))>>]

\* print "r"; print this;
LineResolveError == Source(<<PrintStmt(S("r")), PrintStmt(This(2301))>>)

\* { var v = 1; print v; print 1 / 0; }
LineRuntimeError == Source(<<
    BlockStmt(<<VarStmt("v", N(1)), PrintStmt(Variable(2401, "v")),
                PrintStmt(Binary(N(1), "SLASH", N(0)))>>)>>)

Lines == <<LineFun, LineCall, LineParseError, LineResolveError, LineRuntimeError, Quit>>

\* The sessions at the prompt: up to MaxLines different lines.
RECURSIVE Sessions(_)
Sessions(n) ==
    IF n = 0 THEN {<<>>}
    ELSE Sessions(n - 1) \cup
         {Append(s, i) : s \in {t \in Sessions(n - 1) : Len(t) = n - 1},
                         i \in 1..Len(Lines)}

Distinct(s) == \A i, j \in 1..Len(s) : i # j => s[i] # s[j]

(***************************************************************************)
(* The specification.                                                      *)
(***************************************************************************)
Init ==
    /\ args \in 0..2
    /\ \/ /\ args = 0
          /\ \E s \in {t \in Sessions(MaxLines) : Distinct(t)} :
                input = [i \in 1..Len(s) |-> Lines[s[i]]]
       \/ /\ args = 1
          /\ \E i \in 1..Len(Files) : input = <<Files[i]>>
       \/ /\ args = 2
          /\ input = <<>>
    /\ lineNo = 0
    /\ pc = "main"
    /\ hadError = FALSE
    /\ hadRuntimeError = FALSE
    /\ exitCode = -1
    /\ stderr = <<>>
    /\ stdout = <<>>
    /\ stages = <<>>
    /\ locals = [x \in {} |-> 0]
    /\ environment = Globals
    /\ envs = <<generateNativeEnvironment>>
    /\ funs = <<>>
    /\ classes = <<>>
    /\ instances = <<>>
    /\ ctrl = Idle
    /\ kont = <<>>
    /\ source = <<>>
    /\ tokens = <<>>
    /\ start = 0
    /\ current = 0
    /\ column = 0
    /\ line = 1
    /\ parsed = <<>>

Next ==
    \/ main
    \/ requestCommandLinePrompt
    \/ runScan
    \/ runParse
    \/ runResolve
    \/ runInterpret
    \/ interpret
    \/ runFile
    \/ runPrompt
    \/ execute
    \/ propagate
    \/ visitExpressionStmt
    \/ visitPrintStmt
    \/ visitVarStmt
    \/ visitBlockStmt
    \/ executeBlock
    \/ visitIfStmt
    \/ visitWhileStmt
    \/ visitFunStmt
    \/ visitReturnStmt
    \/ visitClassStmt
    \/ LoxFunctionCall
    \/ LoxClassCall
    \/ NativeClockCall
    \/ visitLiteralExpr
    \/ visitGroupingExpr
    \/ visitVariableExpr
    \/ visitThisExpr
    \/ visitAssignExpr
    \/ visitUnaryExpr
    \/ visitBinaryExpr
    \/ visitLogicalExpr
    \/ visitCallExpr
    \/ visitGetExpr
    \/ visitSetExpr
    \/ visitSuperExpr

Spec == Init /\ [][Next]_vars

(***************************************************************************)
(* The scanner (Lexer/Scanner.ts).  A source is a sequence of characters;  *)
(* start and current count characters from 0 as in the code.  One step is  *)
(* the construction, one iteration of the loop of scanTokens, or its end.  *)
(***************************************************************************)
MaxSource == 4

Alphabet == {" ", "\n", "=", "/", "*", "\"", "1", ".", "o", "r", "@"}

\* The keywords, and texts that are a keyword but for the case of a letter or
\* for a character more.
Words16 == {<<"a", "n", "d">>, <<"c", "l", "a", "s", "s">>, <<"e", "l", "s", "e">>,
            <<"f", "a", "l", "s", "e">>, <<"f", "o", "r">>, <<"f", "u", "n">>, <<"i", "f">>,
            <<"n", "i", "l">>, <<"o", "r">>, <<"p", "r", "i", "n", "t">>,
            <<"r", "e", "t", "u", "r", "n">>, <<"s", "u", "p", "e", "r">>,
            <<"t", "h", "i", "s">>, <<"t", "r", "u", "e">>, <<"v", "a", "r">>,
            <<"w", "h", "i", "l", "e">>}

NearWords == {<<"O", "r">>, <<"o", "R">>, <<"O", "R">>, <<"N", "i", "l">>,
              <<"P", "R", "I", "N", "T">>, <<"o", "r", "_">>, <<"_", "o", "r">>,
              <<"n", "i", "l", "l">>, <<"v", "a">>, <<"i", "f", "1">>, <<"F", "U", "N", "1">>}

Sources == UNION {[1..n -> Alphabet] : n \in 0..MaxSource} \cup Words16 \cup NearWords

\* What peek and peekNext return at the end of the source.
NUL == "\\0"

Digits == <<"0", "1", "2", "3", "4", "5", "6", "7", "8", "9">>

LowerCase == <<"a", "b", "c", "d", "e", "f", "g", "h", "i", "j", "k", "l", "m",
               "n", "o", "p", "q", "r", "s", "t", "u", "v", "w", "x", "y", "z">>

UpperCase == <<"A", "B", "C", "D", "E", "F", "G", "H", "I", "J", "K", "L", "M",
               "N", "O", "P", "Q", "R", "S", "T", "U", "V", "W", "X", "Y", "Z">>

Range(s) == {s[i] : i \in 1..Len(s)}

IndexOf(s, x) == CHOOSE i \in 1..Len(s) : s[i] = x

\* String.prototype.substring for 0 <= from <= to <= length.
substring(s, from, to) == SubSeq(s, from + 1, to)

\* String.prototype.toLowerCase on the ASCII letters.
toLowerCase(text) ==
    [i \in 1..Len(text) |->
        IF text[i] \in Range(UpperCase) THEN LowerCase[IndexOf(UpperCase, text[i])]
        ELSE text[i]]

RECURSIVE Text(_)
\* The characters as one string, to index TokenKeywordMap.
Text(chars) == IF chars = <<>> THEN "" ELSE Head(chars) \o Text(Tail(chars))

RECURSIVE DigitsValue(_)
DigitsValue(text) ==
    IF text = <<>> THEN 0
    ELSE 10 * DigitsValue(SubSeq(text, 1, Len(text) - 1))
         + (IndexOf(Digits, text[Len(text)]) - 1)

RECURSIVE Pow10(_)
Pow10(k) == IF k = 0 THEN 1 ELSE 10 * Pow10(k - 1)

\* parseFloat on digits with an optional fraction, as scanNumber calls it.
parseFloat(text) ==
    LET dots == {i \in 1..Len(text) : text[i] = "."}
        digits == SelectSeq(text, LAMBDA ch : ch # ".")
        k == IF dots = {} THEN 0 ELSE Len(text) - SetMax(dots)
    IN  MkNum(DigitsValue(digits), Pow10(k), FALSE)

TokenKeywordMap ==
    [and |-> "AND", class |-> "CLASS", else |-> "ELSE", false |-> "FALSE", for |-> "FOR",
     fun |-> "FUN", if |-> "IF", nil |-> "NIL", or |-> "OR", print |-> "PRINT",
     return |-> "RETURN", super |-> "SUPER", this |-> "THIS", true |-> "TRUE",
     var |-> "VAR", while |-> "WHILE"]

Token(type, lexeme, literal, ln, col) ==
    [type |-> type, lexeme |-> lexeme, literal |-> literal, line |-> ln, column |-> col]

isAtEnd(cur) == cur >= Len(source)

peek(cur) == IF isAtEnd(cur) THEN NUL ELSE source[cur + 1]

peekNext(cur) == IF cur + 1 >= Len(source) THEN NUL ELSE source[cur + 2]

\* match: whether it consumes the character at cur.
match(expected, cur) == ~isAtEnd(cur) /\ source[cur + 1] = expected

isDigit(ch) == ch \in Range(Digits)

isAlpha(ch) == ch \in Range(LowerCase) \cup Range(UpperCase) \cup {"_"}

isAlphaNumeric(ch) == isAlpha(ch) \/ isDigit(ch)

\* addToken with quotes of a string left out of the lexeme.
addTokenUnquoted(T, type, literal, st, cur, ln, col) ==
    Append(T, Token(type,
                    IF type = "STRING" THEN substring(source, st + 1, cur - 1)
                    ELSE substring(source, st, cur),
                    literal, ln, col))

\* addToken: the lexeme is source.substring(start, current).
addToken(T, type, literal, st, cur, ln, col) ==
    Append(T, Token(type, substring(source, st, cur), literal, ln, col))

\* The variables no step of the scanner changes.
runVars == <<args, input, lineNo, hadRuntimeError, exitCode, stdout, stages, locals,
             environment, heapVars, ctrl, kont, parsed>>

\* new Scanner(source) has run; scanTokens sets column and enters its loop.
scanTokens ==
    /\ pc = "Scanner"
    /\ pc' = "scanTokens"
    /\ column' = 1
    /\ UNCHANGED <<source, tokens, start, current, line, hadError, stderr, runVars>>

\* An iteration of the loop of scanTokens begins.
ScanLoop == pc = "scanTokens" /\ ~isAtEnd(current)

\* The character advance() returns to scanToken.
Advanced == source[current + 1]

\* column after `this.column += (this.current - this.start)'.
LoopColumn == column + (current - start)

Punctuation ==
    [x \in {"(", ")", "{", "}", ",", ".", "-", "+", ";", "*"} |->
        CASE x = "(" -> "LEFT_PAREN" [] x = ")" -> "RIGHT_PAREN"
          [] x = "{" -> "LEFT_BRACE" [] x = "}" -> "RIGHT_BRACE"
          [] x = "," -> "COMMA" [] x = "." -> "DOT" [] x = "-" -> "MINUS"
          [] x = "+" -> "PLUS" [] x = ";" -> "SEMICOLON" [] x = "*" -> "STAR"]

Operators ==
    [x \in {"!", "=", "<", ">"} |->
        CASE x = "!" -> <<"BANG", "BANG_EQUAL">>
          [] x = "=" -> <<"EQUAL", "EQUAL_EQUAL">>
          [] x = "<" -> <<"LESS", "LESS_EQUAL">>
          [] x = ">" -> <<"GREATER", "GREATER_EQUAL">>]

\* scanToken, the cases the switch handles itself.
scanToken ==
    /\ ScanLoop
    /\ start' = current
    /\ \/ /\ Advanced \in {" ", "\r", "\t"}
          /\ current' = current + 1
          /\ column' = LoopColumn
          /\ UNCHANGED <<tokens, line, hadError, stderr>>
       \/ /\ Advanced = "\n"
          /\ current' = current + 1
          /\ line' = line + 1                  \* incrementLine
          /\ column' = 0
          /\ UNCHANGED <<tokens, hadError, stderr>>
       \/ /\ Advanced \in DOMAIN Punctuation
          /\ current' = current + 1
          /\ column' = LoopColumn
          /\ tokens' = addToken(tokens, Punctuation[Advanced], Nil, current, current + 1,
                                line, LoopColumn)
          /\ UNCHANGED <<line, hadError, stderr>>
       \/ /\ Advanced \in DOMAIN Operators
          /\ LET matched == match("=", current + 1)
                 cur == IF matched THEN current + 2 ELSE current + 1
             IN  /\ current' = cur
                 /\ tokens' = addToken(tokens, Operators[Advanced][IF matched THEN 2 ELSE 1],
                                       Nil, current, cur, line, LoopColumn)
          /\ column' = LoopColumn
          /\ UNCHANGED <<line, hadError, stderr>>
       \/ /\ Advanced = "/"
          /\ ~match("/", current + 1) /\ ~match("*", current + 1)
          /\ current' = current + 1
          /\ column' = LoopColumn
          /\ tokens' = addToken(tokens, "SLASH", Nil, current, current + 1, line, LoopColumn)
          /\ UNCHANGED <<line, hadError, stderr>>
       \/ /\ Advanced \notin {" ", "\r", "\t", "\n", "/", "\""}
                             \cup DOMAIN Punctuation \cup DOMAIN Operators
          /\ ~isDigit(Advanced) /\ ~isAlpha(Advanced)
          /\ current' = current + 1
          /\ column' = LoopColumn
          /\ hadError' = TRUE
          /\ stderr' = reportError(stderr, lineNo, <<"Unexpected character: " \o Advanced>>)
          /\ UNCHANGED <<tokens, line>>
    /\ UNCHANGED <<source, pc, runVars>>

RECURSIVE stringEnd(_, _, _)
\* The loop of scanString from cur: where it stops, with line and column.
stringEnd(cur, ln, col) ==
    IF peek(cur) # "\"" /\ ~isAtEnd(cur)
    THEN IF peek(cur) = "\n" THEN stringEnd(cur + 1, ln + 1, 0)
         ELSE stringEnd(cur + 1, ln, col)
    ELSE [current |-> cur, line |-> ln, column |-> col]

scanString ==
    /\ ScanLoop
    /\ Advanced = "\""
    /\ start' = current
    /\ LET end == stringEnd(current + 1, line, LoopColumn)
       IN  /\ line' = end.line
           /\ column' = end.column
           /\ IF isAtEnd(end.current)
              THEN /\ hadError' = TRUE
                   /\ stderr' = reportError(stderr, lineNo, <<"Unterminated string">>)
                   /\ current' = end.current
                   /\ UNCHANGED tokens
              ELSE /\ current' = end.current + 1       \* the closing quote
                   /\ tokens' = addToken(tokens, "STRING",
                                         substring(source, current + 1, end.current),
                                         current, end.current + 1, end.line, end.column)
                   /\ UNCHANGED <<hadError, stderr>>
    /\ UNCHANGED <<source, pc, runVars>>

RECURSIVE digitsEnd(_)
\* while (this.isDigit(this.peek())) this.advance();
digitsEnd(cur) == IF isDigit(peek(cur)) THEN digitsEnd(cur + 1) ELSE cur

scanNumber ==
    /\ ScanLoop
    /\ isDigit(Advanced)
    /\ start' = current
    /\ LET whole == digitsEnd(current + 1)
           cur == IF peek(whole) = "." /\ isDigit(peekNext(whole))
                  THEN digitsEnd(whole + 1) ELSE whole
       IN  /\ current' = cur
           /\ tokens' = addToken(tokens, "NUMBER", parseFloat(substring(source, current, cur)),
                                 current, cur, line, LoopColumn)
    /\ column' = LoopColumn
    /\ UNCHANGED <<source, line, hadError, stderr, pc, runVars>>

RECURSIVE identifierEnd(_)
\* while (this.isAlphaNumeric(this.peek())) this.advance();
identifierEnd(cur) == IF isAlphaNumeric(peek(cur)) THEN identifierEnd(cur + 1) ELSE cur

scanIdentifier ==
    /\ ScanLoop
    /\ isAlpha(Advanced)
    /\ start' = current
    /\ LET cur == identifierEnd(current + 1)
           text == Text(toLowerCase(substring(source, current, cur)))
           type == IF text \in DOMAIN TokenKeywordMap THEN TokenKeywordMap[text]
                   ELSE "IDENTIFIER"
       IN  /\ current' = cur
           /\ tokens' = addToken(tokens, type, Nil, current, cur, line, LoopColumn)
    /\ column' = LoopColumn
    /\ UNCHANGED <<source, line, hadError, stderr, pc, runVars>>

RECURSIVE inlineCommentEnd(_)
\* while (this.peek() != "\n" && !this.isAtEnd()) this.advance();
inlineCommentEnd(cur) ==
    IF peek(cur) # "\n" /\ ~isAtEnd(cur) THEN inlineCommentEnd(cur + 1) ELSE cur

scanInlineComment ==
    /\ ScanLoop
    /\ Advanced = "/" /\ match("/", current + 1)
    /\ start' = current
    /\ LET cur == inlineCommentEnd(current + 2)
       IN  /\ current' = cur
           /\ tokens' = addToken(tokens, "INLINE_COMMENT", substring(source, current, cur),
                                 current, cur, line, LoopColumn)
    /\ column' = LoopColumn
    /\ UNCHANGED <<source, line, hadError, stderr, pc, runVars>>

RECURSIVE blockCommentEnd(_)
\* The loop of scanBlockComment: up to and with the first "*/", or to the end.
blockCommentEnd(cur) ==
    IF isAtEnd(cur) THEN cur
    ELSE IF peek(cur) = "*" /\ peekNext(cur) = "/" THEN cur + 2
    ELSE blockCommentEnd(cur + 1)

scanBlockComment ==
    /\ ScanLoop
    /\ Advanced = "/" /\ ~match("/", current + 1) /\ match("*", current + 1)
    /\ start' = current
    /\ LET cur == blockCommentEnd(current + 2)
       IN  /\ current' = cur
           /\ tokens' = addToken(tokens, "BLOCK_COMMENT", substring(source, current, cur),
                                 current, cur, line, LoopColumn)
    /\ column' = LoopColumn
    /\ UNCHANGED <<source, line, hadError, stderr, pc, runVars>>

\* scanTokens giving up at the first error.
scanTokensAbort ==
    /\ pc = "scanTokens"
    /\ isAtEnd(current) \/ hadError
    /\ tokens' = Append(tokens, Token("EOF", <<>>, Nil, line, column))
    /\ pc' = "tokens"
    /\ UNCHANGED <<source, start, current, column, line, hadError, stderr, runVars>>

\* scanTokens after its loop: the EOF token is pushed and the list returned.
scanTokensReturn ==
    /\ pc = "scanTokens"
    /\ isAtEnd(current)
    /\ tokens' = Append(tokens, Token("EOF", <<>>, Nil, line, column))
    /\ pc' = "tokens"
    /\ UNCHANGED <<source, start, current, column, line, hadError, stderr, runVars>>

InitScan ==
    /\ source \in Sources
    /\ tokens = <<>>
    /\ start = 0
    /\ current = 0
    /\ column = 0
    /\ line = 1
    /\ parsed = <<>>
    /\ pc = "Scanner"
    /\ hadError = FALSE
    /\ stderr = <<>>
    /\ args = 1
    /\ input = <<>>
    /\ lineNo = 0
    /\ hadRuntimeError = FALSE
    /\ exitCode = -1
    /\ stdout = <<>>
    /\ stages = <<>>
    /\ locals = [x \in {} |-> 0]
    /\ environment = Globals
    /\ envs = <<generateNativeEnvironment>>
    /\ funs = <<>>
    /\ classes = <<>>
    /\ instances = <<>>
    /\ ctrl = Idle
    /\ kont = <<>>

NextScan ==
    \/ scanTokens
    \/ scanToken
    \/ scanString
    \/ scanNumber
    \/ scanIdentifier
    \/ scanInlineComment
    \/ scanBlockComment
    \/ scanTokensReturn

SpecScan == InitScan /\ [][NextScan]_vars


(***************************************************************************)
(* The parser (Parser/Parser.ts).  `tokens' is the list the parser was     *)
(* given and `current' its position in it.  A method of the parser is an   *)
(* operator from the position and the errors reported so far to the new    *)
(* position, the errors, the node it made and whether it threw a           *)
(* ParseError.  A Variable is identified by the position of its name and   *)
(* an Assign by the position of its `=': each stands for one object.       *)
(***************************************************************************)
MaxArguments == 255

MaxParameters == 255

ParseResult(cur, errs, node) ==
    [current |-> cur, errors |-> errs, node |-> node, thrown |-> FALSE]

\* throw new ParseError(...): no node is returned.
ParseError(cur, errs) ==
    [current |-> cur, errors |-> errs, node |-> Null, thrown |-> TRUE]

ParserPeek(cur) == tokens[cur + 1]

ParserPrevious(cur) == tokens[cur]

ParserIsAtEnd(cur) == ParserPeek(cur).type = "EOF"

check(cur, type) == IF ParserIsAtEnd(cur) THEN FALSE ELSE ParserPeek(cur).type = type

\* match(...types) finds a type to advance over.
ParserMatch(cur, types) == \E type \in types : check(cur, type)

advance(cur) == IF ~ParserIsAtEnd(cur) THEN cur + 1 ELSE cur

\* error: the report that reportError is called with.
error(errs, token, message) ==
    Append(errs, [line |-> token.line, column |-> token.column,
                  where |-> IF token.type = "EOF" THEN " at end"
                            ELSE " at " \o Text(token.lexeme),
                  message |-> message])

consume(cur, errs, type, message) ==
    IF check(cur, type) THEN ParseResult(advance(cur), errs, ParserPeek(cur))
    ELSE ParseError(cur, error(errs, ParserPeek(cur), message))

\* The runtime value of token.literal: a number, or the text of a string.
LiteralValue(token) ==
    IF token.type = "STRING" THEN Str(Text(token.literal)) ELSE token.literal

RECURSIVE Parser(_, _)
RECURSIVE assignment(_, _)
RECURSIVE or(_, _)
RECURSIVE orLoop(_)
RECURSIVE and(_, _)
RECURSIVE andLoop(_)
RECURSIVE equality(_, _)
RECURSIVE equalityLoop(_)
RECURSIVE comparison(_, _)
RECURSIVE comparisonLoop(_)
RECURSIVE term(_, _)
RECURSIVE termLoop(_)
RECURSIVE factor(_, _)
RECURSIVE factorLoop(_)
RECURSIVE unary(_, _)
RECURSIVE call(_, _)
RECURSIVE callLoop(_)
RECURSIVE finishCall(_, _, _)
RECURSIVE finishCallTurns(_, _)
RECURSIVE primary(_, _)
RECURSIVE blockStatementLoop(_, _, _)
RECURSIVE forStatement(_, _)
RECURSIVE ifStatement(_, _)
RECURSIVE whileStatement(_, _)
RECURSIVE functionDeclaration(_, _, _)

expression(cur, errs) == assignment(cur, errs)

\* A variant of InvalidTarget that throws the error it reports.
InvalidTargetThrown(expr, equals, value) ==
    ParseError(value.current, error(value.errors, tokens[equals], "Invalid assignment target"))

\* What assignment returns for a target that is no Expr.Variable: the error is
\* reported, not thrown, and the left expression returned.
InvalidTarget(expr, equals, value) ==
    ParseResult(value.current, error(value.errors, tokens[equals], "Invalid assignment target"),
                expr.node)

\* assignment with the value parsed: equals is the position of `='.
assignmentTarget(expr, equals, value) ==
    IF value.thrown THEN value
    ELSE IF expr.node.type = "Variable"
    THEN ParseResult(value.current, value.errors, Assign(equals, expr.node.name, value.node))
    ELSE InvalidTarget(expr, equals, value)

\* assignment with the left-hand side parsed.
assignmentValue(expr) ==
    IF expr.thrown THEN expr
    ELSE IF ~ParserMatch(expr.current, {"EQUAL"}) THEN expr
    ELSE assignmentTarget(expr, expr.current + 1,
                          assignment(expr.current + 1, expr.errors))

assignment(cur, errs) == assignmentValue(or(cur, errs))

\* The node a loop `while (this.match(...types))' builds of the left operand,
\* the operator matched and the right operand.
OperatorLoop(expr, right, kind) ==
    IF right.thrown THEN right
    ELSE [right EXCEPT !.node = [type |-> kind, left |-> expr.node,
                                 operator |-> ParserPeek(expr.current).type,
                                 right |-> right.node]]

\* The loop of or, with the left operand parsed.
orLoop(expr) ==
    IF expr.thrown THEN expr
    ELSE IF ~ParserMatch(expr.current, {"OR"}) THEN expr
    ELSE orLoop(OperatorLoop(expr, and(expr.current + 1, expr.errors), "Logical"))

or(cur, errs) == orLoop(and(cur, errs))

andLoop(expr) ==
    IF expr.thrown THEN expr
    ELSE IF ~ParserMatch(expr.current, {"AND"}) THEN expr
    ELSE andLoop(OperatorLoop(expr, equality(expr.current + 1, expr.errors), "Logical"))

and(cur, errs) == andLoop(equality(cur, errs))

equalityLoop(expr) ==
    IF expr.thrown THEN expr
    ELSE IF ~ParserMatch(expr.current, {"BANG_EQUAL", "EQUAL_EQUAL"}) THEN expr
    ELSE equalityLoop(OperatorLoop(expr, comparison(expr.current + 1, expr.errors), "Binary"))

equality(cur, errs) == equalityLoop(comparison(cur, errs))

ComparisonTypes == {"GREATER", "GREATER_EQUAL", "LESS", "LESS_EQUAL"}

comparisonLoop(expr) ==
    IF expr.thrown THEN expr
    ELSE IF ~ParserMatch(expr.current, ComparisonTypes) THEN expr
    ELSE comparisonLoop(OperatorLoop(expr, term(expr.current + 1, expr.errors), "Binary"))

comparison(cur, errs) == comparisonLoop(term(cur, errs))

termLoop(expr) ==
    IF expr.thrown THEN expr
    ELSE IF ~ParserMatch(expr.current, {"MINUS", "PLUS"}) THEN expr
    ELSE termLoop(OperatorLoop(expr, factor(expr.current + 1, expr.errors), "Binary"))

term(cur, errs) == termLoop(factor(cur, errs))

factorLoop(expr) ==
    IF expr.thrown THEN expr
    ELSE IF ~ParserMatch(expr.current, {"SLASH", "STAR"}) THEN expr
    ELSE factorLoop(OperatorLoop(expr, unary(expr.current + 1, expr.errors), "Binary"))

factor(cur, errs) == factorLoop(unary(cur, errs))

\* unary with the operand parsed.
unaryRight(operator, right) ==
    IF right.thrown THEN right ELSE [right EXCEPT !.node = Unary(operator, right.node)]

unary(cur, errs) ==
    IF ~ParserMatch(cur, {"BANG", "MINUS"}) THEN call(cur, errs)
    ELSE unaryRight(ParserPeek(cur).type, unary(cur + 1, errs))

\* The loop of call, with the callee parsed.
callLoop(expr) ==
    IF expr.thrown THEN expr
    ELSE IF ~ParserMatch(expr.current, {"LEFT_PAREN"}) THEN expr
    ELSE callLoop(finishCall(expr.current + 1, expr.errors, expr.node))

call(cur, errs) == callLoop(primary(cur, errs))

\* A variant of TooManyArguments that lets 256 arguments pass.
TooManyArgumentsOver(cur, errs, a) ==
    IF Len(a) > MaxArguments
    THEN error(errs, ParserPeek(cur), "Can't have more than 255 arguments")
    ELSE errs

\* The error finishCall reports, without throwing, before the argument that
\* follows a = <<a1, ...>>.
TooManyArguments(cur, errs, a) ==
    IF Len(a) >= MaxArguments
    THEN error(errs, ParserPeek(cur), "Can't have more than 255 arguments")
    ELSE errs

\* One turn of the do-while of finishCall, with the argument parsed.
finishCallArgument(loop, argument) ==
    IF argument.thrown
    THEN [loop EXCEPT !.current = argument.current, !.errors = argument.errors,
                      !.thrown = TRUE]
    ELSE IF ParserMatch(argument.current, {"COMMA"})
    THEN [loop EXCEPT !.current = argument.current + 1, !.errors = argument.errors,
                      !.node = Append(@, argument.node)]
    ELSE [loop EXCEPT !.current = argument.current, !.errors = argument.errors,
                      !.node = Append(@, argument.node), !.done = TRUE]

\* One turn of the do-while of finishCall.  `loop' holds the position, the
\* errors, the arguments so far, and whether the loop has thrown or is done.
finishCallTurn(loop) ==
    IF loop.thrown \/ loop.done THEN loop
    ELSE finishCallArgument(
             loop, Parser("expression",
                          <<loop.current,
                            TooManyArguments(loop.current, loop.errors, loop.node)>>))

\* The second half of n turns.
finishCallRest(n, half) ==
    IF half.thrown \/ half.done THEN half ELSE finishCallTurns(n, half)

\* n turns of the do-while, one half after the other.
finishCallTurns(n, loop) ==
    IF n = 0 THEN loop
    ELSE IF n = 1 THEN finishCallTurn(loop)
    ELSE finishCallRest(n - (n \div 2), finishCallTurns(n \div 2, loop))

\* What a do-while that ran into `loop' leaves.
LoopResult(loop) ==
    IF loop.thrown THEN ParseError(loop.current, loop.errors)
    ELSE ParseResult(loop.current, loop.errors, loop.node)

\* The do-while of finishCall: node is the list of arguments.  Every turn
\* advances, so the loop is done within as many turns as tokens are left.
finishCallLoop(cur, errs, a) ==
    LoopResult(finishCallTurns(Len(tokens) - cur,
                               [current |-> cur, errors |-> errs, node |-> a,
                                thrown |-> FALSE, done |-> FALSE]))

\* A call of `method' where `previous' returned; a ParseError thrown before
\* is still on its way up.
Then(previous, method) ==
    IF previous.thrown THEN previous
    ELSE Parser(method, <<previous.current, previous.errors>>)

\* consume where `previous' returned.
ThenConsume(previous, type, message) ==
    IF previous.thrown THEN previous
    ELSE consume(previous.current, previous.errors, type, message)

\* return node, where `previous' returned.
Return(previous, node) ==
    IF previous.thrown THEN previous ELSE [previous EXCEPT !.node = node]

\* finishCall with the arguments parsed.
finishCallParen(callee, a) ==
    Return(ThenConsume(a, "RIGHT_PAREN", "Expected ')' after function arguments"),
           Call(callee, a.node))

finishCall(cur, errs, callee) ==
    finishCallParen(callee, IF ~check(cur, "RIGHT_PAREN") THEN finishCallLoop(cur, errs, <<>>)
                            ELSE ParseResult(cur, errs, <<>>))

\* primary with the expression in parentheses parsed.
primaryGrouping(expr) ==
    Return(ThenConsume(expr, "RIGHT_PAREN", "Expected ')' after expression"),
           Grouping(expr.node))

primary(cur, errs) ==
    IF ParserMatch(cur, {"FALSE"}) THEN ParseResult(cur + 1, errs, Literal(Bool(FALSE)))
    ELSE IF ParserMatch(cur, {"TRUE"}) THEN ParseResult(cur + 1, errs, Literal(Bool(TRUE)))
    ELSE IF ParserMatch(cur, {"NIL"}) THEN ParseResult(cur + 1, errs, Literal(Nil))
    ELSE IF ParserMatch(cur, {"NUMBER", "STRING"})
    THEN ParseResult(cur + 1, errs, Literal(LiteralValue(ParserPeek(cur))))
    ELSE IF ParserMatch(cur, {"IDENTIFIER"})
    THEN ParseResult(cur + 1, errs, Variable(cur + 1, Text(ParserPeek(cur).lexeme)))
    ELSE IF ParserMatch(cur, {"LEFT_PAREN"})
    THEN primaryGrouping(Parser("expression", <<cur + 1, errs>>))
    ELSE ParseError(cur, error(errs, ParserPeek(cur), "Expected expression"))

printStatement(cur, errs) ==
    LET value == Parser("expression", <<cur, errs>>)
        semicolon == ThenConsume(value, "SEMICOLON", "Expected ';' after value")
    IN  Return(semicolon, PrintStmt(value.node))

expressionStatement(cur, errs) ==
    LET expr == Parser("expression", <<cur, errs>>)
        semicolon == ThenConsume(expr, "SEMICOLON", "Expected ';' after value")
    IN  Return(semicolon, ExpressionStmt(expr.node))

\* let initializer = null; if (this.match(EQUAL)) initializer = this.expression();
varInitializer(name) ==
    IF name.thrown THEN name
    ELSE IF ParserMatch(name.current, {"EQUAL"})
    THEN Parser("expression", <<name.current + 1, name.errors>>)
    ELSE ParseResult(name.current, name.errors, Null)

varDeclaration(cur, errs) ==
    LET name == consume(cur, errs, "IDENTIFIER", "Expected variable name")
        initializer == varInitializer(name)
        semicolon == ThenConsume(initializer, "SEMICOLON",
                                 "Expected ';' after variable declaration")
    IN  Return(semicolon, VarStmt(Text(name.node.lexeme), initializer.node))

\* A variant of ForLoop in which the increment runs before the body.
ForLoopIncrementFirst(initializer, condition, increment, body) ==
    LET stepped == IF increment.type # "null"
                   THEN BlockStmt(<<ExpressionStmt(increment), body>>)
                   ELSE body
        loop == WhileStmt(IF condition.type = "null" THEN Literal(Bool(TRUE)) ELSE condition,
                          stepped)
    IN  IF initializer.type # "null" THEN BlockStmt(<<initializer, loop>>) ELSE loop

\* The statement forStatement builds of its four parts; Null is a part left out.
ForLoop(initializer, condition, increment, body) ==
    LET stepped == IF increment.type # "null"
                   THEN BlockStmt(<<body, ExpressionStmt(increment)>>)
                   ELSE body
        loop == WhileStmt(IF condition.type = "null" THEN Literal(Bool(TRUE)) ELSE condition,
                          stepped)
    IN  IF initializer.type # "null" THEN BlockStmt(<<initializer, loop>>) ELSE loop

\* The initializer of forStatement, after the parenthesis.
forInitializer(paren) ==
    IF paren.thrown THEN paren
    ELSE IF ParserMatch(paren.current, {"SEMICOLON"})
    THEN ParseResult(paren.current + 1, paren.errors, Null)
    ELSE IF ParserMatch(paren.current, {"VAR"})
    THEN varDeclaration(paren.current + 1, paren.errors)
    ELSE expressionStatement(paren.current, paren.errors)

\* The condition of forStatement, after the initializer.
forCondition(initializer) ==
    IF initializer.thrown THEN initializer
    ELSE IF ~check(initializer.current, "SEMICOLON")
    THEN Parser("expression", <<initializer.current, initializer.errors>>)
    ELSE ParseResult(initializer.current, initializer.errors, Null)

\* The increment of forStatement, after the second semicolon.
forIncrement(semicolon) ==
    IF semicolon.thrown THEN semicolon
    ELSE IF ~check(semicolon.current, "RIGHT_PAREN")
    THEN Parser("expression", <<semicolon.current, semicolon.errors>>)
    ELSE ParseResult(semicolon.current, semicolon.errors, Null)

forStatement(cur, errs) ==
    LET paren == consume(cur, errs, "LEFT_PAREN", "Expected '(' after 'for'")
        initializer == forInitializer(paren)
        condition == forCondition(initializer)
        semicolon == ThenConsume(condition, "SEMICOLON", "Expected ';' after loop condition")
        increment == forIncrement(semicolon)
        closing == ThenConsume(increment, "RIGHT_PAREN", "Expected ')' after loop clauses")
        body == Then(closing, "statement")
    IN  Return(body, ForLoop(initializer.node, condition.node, increment.node, body.node))

\* The else branch of ifStatement, after the then branch.
ifElseBranch(thenBranch) ==
    IF thenBranch.thrown THEN thenBranch
    ELSE IF ParserMatch(thenBranch.current, {"ELSE"})
    THEN Parser("statement", <<thenBranch.current + 1, thenBranch.errors>>)
    ELSE ParseResult(thenBranch.current, thenBranch.errors, Null)

ifStatement(cur, errs) ==
    LET paren == consume(cur, errs, "LEFT_PAREN", "Expected '(' after 'if'")
        condition == Then(paren, "expression")
        closing == ThenConsume(condition, "RIGHT_PAREN", "Expected ')' after condition")
        thenBranch == Then(closing, "statement")
        elseBranch == ifElseBranch(thenBranch)
    IN  Return(elseBranch, IfStmt(condition.node, thenBranch.node, elseBranch.node))

whileStatement(cur, errs) ==
    LET paren == consume(cur, errs, "LEFT_PAREN", "Expected '(' after 'while'")
        condition == Then(paren, "expression")
        closing == ThenConsume(condition, "RIGHT_PAREN", "Expected ')' after condition")
        body == Then(closing, "statement")
    IN  Return(body, WhileStmt(condition.node, body.node))

\* The while loop of blockStatement and the closing brace.
blockStatementLoop(cur, errs, stmts) ==
    LET stmt == Parser("declaration", <<cur, errs>>)
        brace == consume(cur, errs, "RIGHT_BRACE", "Expected '}' after block")
    IN  IF ~check(cur, "RIGHT_BRACE") /\ ~ParserIsAtEnd(cur)
        THEN (IF stmt.thrown THEN stmt
              ELSE blockStatementLoop(stmt.current, stmt.errors, Append(stmts, stmt.node)))
        ELSE Return(brace, stmts)

blockStatement(cur, errs) == blockStatementLoop(cur, errs, <<>>)

statement(cur, errs) ==
    LET block == Parser("blockStatement", <<cur + 1, errs>>)
    IN  IF ParserMatch(cur, {"FOR"}) THEN forStatement(cur + 1, errs)
        ELSE IF ParserMatch(cur, {"IF"}) THEN ifStatement(cur + 1, errs)
        ELSE IF ParserMatch(cur, {"PRINT"}) THEN printStatement(cur + 1, errs)
        ELSE IF ParserMatch(cur, {"WHILE"}) THEN whileStatement(cur + 1, errs)
        ELSE IF ParserMatch(cur, {"LEFT_BRACE"}) THEN Return(block, BlockStmt(block.node))
        ELSE expressionStatement(cur, errs)

\* The error functionDeclaration reports, without throwing, before the
\* parameter that follows params.
TooManyParameters(cur, errs, params) ==
    IF Len(params) >= MaxParameters
    THEN error(errs, ParserPeek(cur), "Can't have more than 255 parameters")
    ELSE errs

\* One turn of the do-while of functionDeclaration.  `loop' holds the position,
\* the errors, the parameter names so far, and whether the loop has thrown or
\* is done.
functionDeclarationTurn(loop) ==
    LET param == consume(loop.current,
                         TooManyParameters(loop.current, loop.errors, loop.node),
                         "IDENTIFIER", "Expected parameter name")
        params == Append(loop.node, Text(param.node.lexeme))
    IN  IF loop.thrown \/ loop.done THEN loop
        ELSE IF param.thrown
        THEN [loop EXCEPT !.current = param.current, !.errors = param.errors,
                          !.thrown = TRUE]
        ELSE IF ParserMatch(param.current, {"COMMA"})
        THEN [loop EXCEPT !.current = param.current + 1, !.errors = param.errors,
                          !.node = params]
        ELSE [loop EXCEPT !.current = param.current, !.errors = param.errors,
                          !.node = params, !.done = TRUE]

RECURSIVE functionDeclarationTurns(_, _)
\* n turns of the do-while, one half after the other.
functionDeclarationTurns(n, loop) ==
    IF n = 0 THEN loop
    ELSE IF n = 1 THEN functionDeclarationTurn(loop)
    ELSE LET half == functionDeclarationTurns(n \div 2, loop)
         IN  IF half.thrown \/ half.done THEN half
             ELSE functionDeclarationTurns(n - (n \div 2), half)

\* The do-while of functionDeclaration: node is the list of parameter names.
functionDeclarationLoop(cur, errs, params) ==
    LET loop == functionDeclarationTurns(Len(tokens) - cur,
                                         [current |-> cur, errors |-> errs, node |-> params,
                                          thrown |-> FALSE, done |-> FALSE])
    IN  IF loop.thrown THEN ParseError(loop.current, loop.errors)
        ELSE ParseResult(loop.current, loop.errors, loop.node)

\* The parameters of functionDeclaration, after the parenthesis.
functionParameters(paren) ==
    IF paren.thrown THEN paren
    ELSE IF ~check(paren.current, "RIGHT_PAREN")
    THEN functionDeclarationLoop(paren.current, paren.errors, <<>>)
    ELSE ParseResult(paren.current, paren.errors, <<>>)

functionDeclaration(cur, errs, kind) ==
    LET name == consume(cur, errs, "IDENTIFIER", "Expected " \o kind \o " name")
        paren == ThenConsume(name, "LEFT_PAREN", "Expected '(' after " \o kind \o " name")
        params == functionParameters(paren)
        closing == ThenConsume(params, "RIGHT_PAREN",
                               "Expected ')' after " \o kind \o " parameters")
        brace == ThenConsume(closing, "LEFT_BRACE", "Expected '{' before " \o kind \o " body")
        body == Then(brace, "blockStatement")
    IN  Return(body, FunStmt(Text(name.node.lexeme), params.node, body.node))

declaration(cur, errs) ==
    IF ParserMatch(cur, {"FUN"}) THEN functionDeclaration(cur + 1, errs, "function")
    ELSE IF ParserMatch(cur, {"VAR"}) THEN varDeclaration(cur + 1, errs)
    ELSE Parser("statement", <<cur, errs>>)

\* this[method](...arguments): expression, statement, declaration or
\* blockStatement called by another method.
Parser(method, arguments) ==
    CASE method = "expression" -> expression(arguments[1], arguments[2])
      [] method = "statement" -> statement(arguments[1], arguments[2])
      [] method = "declaration" -> declaration(arguments[1], arguments[2])
      [] method = "blockStatement" -> blockStatement(arguments[1], arguments[2])

\* The token types synchronize stops in front of.
SynchronizeTypes == {"CLASS", "FUN", "VAR", "FOR", "IF", "WHILE", "PRINT", "RETURN"}

RECURSIVE synchronizeLoop(_)
\* The while loop of synchronize.
synchronizeLoop(cur) ==
    IF ParserIsAtEnd(cur) THEN cur
    ELSE IF ParserPrevious(cur).type = "SEMICOLON" THEN cur
    ELSE IF ParserPeek(cur).type \in SynchronizeTypes THEN cur
    ELSE synchronizeLoop(advance(cur))

\* A variant of synchronize that discards one token only.
synchronizeOnce(cur) == advance(cur)

synchronize(cur) == synchronizeLoop(advance(cur))

\* What the parser leaves alone besides the scanner's fields.
interpreterVars == <<args, input, lineNo, hadRuntimeError, exitCode, stdout, stages, locals,
                     environment, heapVars, ctrl, kont>>

\* Parser.parse is entered: statements = [].
parse ==
    /\ pc = "Parser"
    /\ pc' = "parse"
    /\ parsed' = <<>>
    /\ current' = 0
    /\ UNCHANGED <<source, tokens, start, column, line, hadError, stderr, interpreterVars>>

\* One turn of the loop of parse in which declaration returns.
parseDeclaration ==
    /\ pc = "parse"
    /\ ~ParserIsAtEnd(current)
    /\ LET result == Parser("declaration", <<current, <<>>>>)
       IN  /\ ~result.thrown
           /\ parsed' = Append(parsed, result.node)
           /\ current' = result.current
           /\ stderr' = reportError(stderr, lineNo, result.errors)
           /\ hadError' = (hadError \/ result.errors # <<>>)
    /\ UNCHANGED <<source, tokens, start, column, line, pc, interpreterVars>>

\* A variant of parseSynchronize that catches the ParseError and goes on
\* where it was thrown.
parseSynchronizeStay ==
    /\ pc = "parse"
    /\ ~ParserIsAtEnd(current)
    /\ LET result == Parser("declaration", <<current, <<>>>>)
       IN  /\ result.thrown
           /\ current' = result.current
           /\ stderr' = reportError(stderr, lineNo, result.errors)
           /\ hadError' = TRUE
    /\ UNCHANGED <<source, tokens, start, column, line, pc, parsed, interpreterVars>>

\* One turn of the loop of parse in which declaration throws a ParseError.
parseSynchronize ==
    /\ pc = "parse"
    /\ ~ParserIsAtEnd(current)
    /\ LET result == Parser("declaration", <<current, <<>>>>)
       IN  /\ result.thrown
           /\ current' = synchronize(result.current)
           /\ stderr' = reportError(stderr, lineNo, result.errors)
           /\ hadError' = TRUE
    /\ UNCHANGED <<source, tokens, start, column, line, pc, parsed, interpreterVars>>

parseReturn ==
    /\ pc = "parse"
    /\ ParserIsAtEnd(current)
    /\ pc' = "statements"
    /\ UNCHANGED <<source, tokens, start, current, column, line, parsed, hadError, stderr,
                   interpreterVars>>

\* The longest token list of which every instance is parsed, EOF not counted.
MaxTokens == 4

\* The tokens the scanner makes of a text, by the text.
Lexicon ==
    [a |-> [type |-> "IDENTIFIER", lexeme |-> <<"a">>, literal |-> Nil],
     b |-> [type |-> "IDENTIFIER", lexeme |-> <<"b">>, literal |-> Nil],
     f |-> [type |-> "IDENTIFIER", lexeme |-> <<"f">>, literal |-> Nil],
     one |-> [type |-> "NUMBER", lexeme |-> <<"1">>, literal |-> parseFloat(<<"1">>)],
     two |-> [type |-> "NUMBER", lexeme |-> <<"2">>, literal |-> parseFloat(<<"2">>)],
     three |-> [type |-> "NUMBER", lexeme |-> <<"3">>, literal |-> parseFloat(<<"3">>)],
     s |-> [type |-> "STRING", lexeme |-> <<"\"", "s", "\"">>, literal |-> <<"s">>],
     equal |-> [type |-> "EQUAL", lexeme |-> <<"=">>, literal |-> Nil],
     less |-> [type |-> "LESS", lexeme |-> <<"<">>, literal |-> Nil],
     plus |-> [type |-> "PLUS", lexeme |-> <<"+">>, literal |-> Nil],
     semicolon |-> [type |-> "SEMICOLON", lexeme |-> <<";">>, literal |-> Nil],
     comma |-> [type |-> "COMMA", lexeme |-> <<",">>, literal |-> Nil],
     lparen |-> [type |-> "LEFT_PAREN", lexeme |-> <<"(">>, literal |-> Nil],
     rparen |-> [type |-> "RIGHT_PAREN", lexeme |-> <<")">>, literal |-> Nil],
     lbrace |-> [type |-> "LEFT_BRACE", lexeme |-> <<"{">>, literal |-> Nil],
     rbrace |-> [type |-> "RIGHT_BRACE", lexeme |-> <<"}">>, literal |-> Nil],
     print |-> [type |-> "PRINT", lexeme |-> <<"p", "r", "i", "n", "t">>, literal |-> Nil],
     var |-> [type |-> "VAR", lexeme |-> <<"v", "a", "r">>, literal |-> Nil],
     for |-> [type |-> "FOR", lexeme |-> <<"f", "o", "r">>, literal |-> Nil],
     fun |-> [type |-> "FUN", lexeme |-> <<"f", "u", "n">>, literal |-> Nil],
     if |-> [type |-> "IF", lexeme |-> <<"i", "f">>, literal |-> Nil],
     else |-> [type |-> "ELSE", lexeme |-> <<"e", "l", "s", "e">>, literal |-> Nil],
     while |-> [type |-> "WHILE", lexeme |-> <<"w", "h", "i", "l", "e">>, literal |-> Nil],
     or |-> [type |-> "OR", lexeme |-> <<"o", "r">>, literal |-> Nil],
     and |-> [type |-> "AND", lexeme |-> <<"a", "n", "d">>, literal |-> Nil],
     bang |-> [type |-> "BANG", lexeme |-> <<"!">>, literal |-> Nil],
     star |-> [type |-> "STAR", lexeme |-> <<"*">>, literal |-> Nil],
     eqeq |-> [type |-> "EQUAL_EQUAL", lexeme |-> <<"=", "=">>, literal |-> Nil],
     true |-> [type |-> "TRUE", lexeme |-> <<"t", "r", "u", "e">>, literal |-> Nil],
     false |-> [type |-> "FALSE", lexeme |-> <<"f", "a", "l", "s", "e">>, literal |-> Nil],
     nil |-> [type |-> "NIL", lexeme |-> <<"n", "i", "l">>, literal |-> Nil]]

\* The token list scanTokens returns for the texts `words', on one line.
Lexed(words) ==
    [i \in 1..Len(words) + 1 |->
        IF i <= Len(words)
        THEN Token(Lexicon[words[i]].type, Lexicon[words[i]].lexeme, Lexicon[words[i]].literal,
                   1, i)
        ELSE Token("EOF", <<>>, Nil, 1, i)]

\* The texts of which every list of up to MaxTokens is parsed.  Parentheses and
\* braces are opened in Programs only, which keeps the depth of the descent small.
Words == {"a", "one", "equal", "plus", "semicolon", "print", "var", "rparen", "rbrace"}

\* n copies of `words', one after the other.
Repeat(n, words) == [i \in 1..n * Len(words) |-> words[((i - 1) % Len(words)) + 1]]

\* f(1, ..., 1); with n arguments
CallOf(n) == <<"f", "lparen", "one">> \o Repeat(n - 1, <<"comma", "one">>)
             \o <<"rparen", "semicolon">>

\* fun f(a, ..., a) {} with n parameters
FunOf(n) == <<"fun", "f", "lparen", "a">> \o Repeat(n - 1, <<"comma", "a">>)
            \o <<"rparen", "lbrace", "rbrace">>

\* Longer programs that are parsed too.
Programs == {
    \* ( ; 1 ; ( a = 1 ;
    <<"lparen", "semicolon", "one", "semicolon", "lparen", "a", "equal", "one", "semicolon">>,
    \* 1 print 1 ; print 2 ;
    <<"one", "print", "one", "semicolon", "print", "two", "semicolon">>,
    \* a + 1 = 2 ; print a ;
    <<"a", "plus", "one", "equal", "two", "semicolon", "print", "a", "semicolon">>,
    \* print ( a ) = 1 + 2 ;
    <<"print", "lparen", "a", "rparen", "equal", "one", "plus", "two", "semicolon">>,
    \* a = b = 1 ;
    <<"a", "equal", "b", "equal", "one", "semicolon">>,
    \* for ( var a = 1 ; a < 2 ; a = a + 1 ) print a ;
    <<"for", "lparen", "var", "a", "equal", "one", "semicolon", "a", "less", "two",
      "semicolon", "a", "equal", "a", "plus", "one", "rparen", "print", "a", "semicolon">>,
    \* for ( a = 1 ; a < 2 ; ) { print a ; }
    <<"for", "lparen", "a", "equal", "one", "semicolon", "a", "less", "two", "semicolon",
      "rparen", "lbrace", "print", "a", "semicolon", "rbrace">>,
    \* for ( ; ; a = 1 ) print a ;
    <<"for", "lparen", "semicolon", "semicolon", "a", "equal", "one", "rparen", "print", "a",
      "semicolon">>,
    \* for ( ; ; ) print a ;
    <<"for", "lparen", "semicolon", "semicolon", "rparen", "print", "a", "semicolon">>,
    \* for ( ; a < 2 ; ) print a ;
    <<"for", "lparen", "semicolon", "a", "less", "two", "semicolon", "rparen", "print", "a",
      "semicolon">>,
    \* for ( var a ; ; ) for ( ; ; a = 1 ) print a ; print a ;
    <<"for", "lparen", "var", "a", "semicolon", "semicolon", "rparen", "for", "lparen",
      "semicolon", "semicolon", "a", "equal", "one", "rparen", "print", "a", "semicolon",
      "print", "a", "semicolon">>,
    \* for ( ; a < 2 ; a = 1 print a ; print a ;
    <<"for", "lparen", "semicolon", "a", "less", "two", "semicolon", "a", "equal", "one",
      "print", "a", "semicolon", "print", "a", "semicolon">>,
    \* if ( a ) print 1 ; else while ( ! a or true and false ) { var b ; }
    <<"if", "lparen", "a", "rparen", "print", "one", "semicolon", "else", "while", "lparen",
      "bang", "a", "or", "true", "and", "false", "rparen", "lbrace", "var", "b", "semicolon",
      "rbrace">>,
    \* fun f ( a , b ) { print a * b == nil ; } f ( 1 , "s" ) ( ) ;
    <<"fun", "f", "lparen", "a", "comma", "b", "rparen", "lbrace", "print", "a", "star", "b",
      "eqeq", "nil", "semicolon", "rbrace", "f", "lparen", "one", "comma", "s", "rparen",
      "lparen", "rparen", "semicolon">>,
    \* { var a = ; print 1 ; } print 2 ;
    <<"lbrace", "var", "a", "equal", "semicolon", "print", "one", "semicolon", "rbrace",
      "print", "two", "semicolon">>,
    \* fun f ( ) { print 1 ;
    <<"fun", "f", "lparen", "rparen", "lbrace", "print", "one", "semicolon">> }

\* Calls and declarations of about 255 arguments and parameters.
LongPrograms == {
    CallOf(MaxArguments - 1), CallOf(MaxArguments), CallOf(MaxArguments + 1),
    CallOf(MaxArguments + 2),
    FunOf(MaxParameters - 1), FunOf(MaxParameters), FunOf(MaxParameters + 1),
    FunOf(MaxParameters + 2),
    \* f(1, ..., 1); print 1; with an argument too many
    CallOf(MaxArguments + 1) \o <<"print", "one", "semicolon">>,
    \* fun f(a, ..., a) {} print 1; with a parameter too many
    FunOf(MaxParameters + 1) \o <<"print", "one", "semicolon">> }

RECURSIVE WordLists(_)
WordLists(n) ==
    IF n = 0 THEN {<<>>}
    ELSE LET shorter == WordLists(n - 1)
         IN  shorter \cup {Append(w, x) : w \in {v \in shorter : Len(v) = n - 1}, x \in Words}

InitParse ==
    /\ source = <<>>
    /\ \E words \in WordLists(MaxTokens) \cup Programs \cup LongPrograms :
          tokens = Lexed(words)
    /\ start = 0
    /\ current = 0
    /\ column = 0
    /\ line = 1
    /\ parsed = <<>>
    /\ pc = "Parser"
    /\ hadError = FALSE
    /\ stderr = <<>>
    /\ args = 1
    /\ input = <<>>
    /\ lineNo = 0
    /\ hadRuntimeError = FALSE
    /\ exitCode = -1
    /\ stdout = <<>>
    /\ stages = <<>>
    /\ locals = [x \in {} |-> 0]
    /\ environment = Globals
    /\ envs = <<generateNativeEnvironment>>
    /\ funs = <<>>
    /\ classes = <<>>
    /\ instances = <<>>
    /\ ctrl = Idle
    /\ kont = <<>>

NextParse ==
    \/ parse
    \/ parseDeclaration
    \/ parseSynchronize
    \/ parseReturn

SpecParse == InitParse /\ [][NextParse]_vars

\* parse is running: one of its steps can be taken.
ParserRunning == pc \in {"Parser", "parse"}

\* parse runs to its end: the loop of parse is sequential code, which takes
\* its next turn whenever there is one.  This is weak fairness of NextParse,
\* WF_vars(NextParse), with ENABLED <<NextParse>>_vars written out as
\* ParserRunning.
SpecParseFair == SpecParse /\ ([]<>(~ParserRunning) \/ []<><<NextParse>>_vars)

(***************************************************************************)
(* run with the parser in it: part_005.  A file is given by the tokens     *)
(* scanTokens returns for it; run parses them, and resolves and interprets *)
(* the statements parse returns.                                           *)
(***************************************************************************)
\* A source of which the tokens are known and the statements are not yet.
Tokenized(words) ==
    [kind |-> "tokens", scanErrors |-> <<>>, parseErrors |-> <<>>, statements |-> <<>>,
     words |-> words]

\* The files that are scanned into tokens.
TokenFiles == <<
    \* for ( var a = 1 ; a < 3 ; a = a + 1 ) print a ; print a ;
    <<"for", "lparen", "var", "a", "equal", "one", "semicolon", "a", "less", "three",
      "semicolon", "a", "equal", "a", "plus", "one", "rparen", "print", "a", "semicolon",
      "print", "a", "semicolon">>,
    \* var a = 1 ; for ( ; a < 3 ; ) { print a ; a = a + 1 ; } print a ;
    <<"var", "a", "equal", "one", "semicolon", "for", "lparen", "semicolon", "a", "less",
      "three", "semicolon", "rparen", "lbrace", "print", "a", "semicolon", "a", "equal", "a",
      "plus", "one", "semicolon", "rbrace", "print", "a", "semicolon">>,
    \* var a = 1 ; for ( ; ; a = a + 1 ) { print a ; if ( a == 2 ) b ; }
    <<"var", "a", "equal", "one", "semicolon", "for", "lparen", "semicolon", "semicolon",
      "a", "equal", "a", "plus", "one", "rparen", "lbrace", "print", "a", "semicolon", "if",
      "lparen", "a", "eqeq", "two", "rparen", "b", "semicolon", "rbrace">>,
    \* for ( a = 1 ; ; ) print a ;
    <<"for", "lparen", "a", "equal", "one", "semicolon", "semicolon", "rparen", "print", "a",
      "semicolon">>,
    \* var a ; for ( a = 1 ; a < 3 ; a = a + 1 ) for ( var b = a ; b < 3 ; b = b + 1 ) print b ;
    <<"var", "a", "semicolon", "for", "lparen", "a", "equal", "one", "semicolon", "a", "less",
      "three", "semicolon", "a", "equal", "a", "plus", "one", "rparen", "for", "lparen", "var",
      "b", "equal", "a", "semicolon", "b", "less", "three", "semicolon", "b", "equal", "b",
      "plus", "one", "rparen", "print", "b", "semicolon">>,
    \* for ( ; a < 2 ; a = 1 print a ; print 2 ;
    <<"for", "lparen", "semicolon", "a", "less", "two", "semicolon", "a", "equal", "one",
      "print", "a", "semicolon", "print", "two", "semicolon">>,
    \* for ( ; ; ) print a ;
    <<"for", "lparen", "semicolon", "semicolon", "rparen", "print", "a", "semicolon">> >>

\* run: new Parser(tokens), for a file given by its tokens.
runParser ==
    /\ pc = "scanned"
    /\ input[lineNo].kind = "tokens"
    /\ tokens' = Lexed(input[lineNo].words)
    /\ pc' = "Parser"
    /\ UNCHANGED <<source, start, current, column, line, parsed, hadError, stderr,
                   interpreterVars>>

\* run: const statements = parser.parse().
runParsed ==
    /\ pc = "statements"
    /\ input' = [input EXCEPT ![lineNo] = Source(parsed)]
    /\ stages' = Append(stages, "parse")
    /\ pc' = "parsed"
    /\ UNCHANGED <<args, lineNo, hadError, hadRuntimeError, exitCode, stderr, stdout, locals,
                   evalVars>>
    /\ UNCHANGED scannerVars

InitRun ==
    /\ \/ Init
       \/ /\ args = 1
          /\ \E i \in 1..Len(TokenFiles) : input = <<Tokenized(TokenFiles[i])>>
          /\ lineNo = 0
          /\ pc = "main"
          /\ hadError = FALSE
          /\ hadRuntimeError = FALSE
          /\ exitCode = -1
          /\ stderr = <<>>
          /\ stdout = <<>>
          /\ stages = <<>>
          /\ locals = [x \in {} |-> 0]
          /\ environment = Globals
          /\ envs = <<generateNativeEnvironment>>
          /\ funs = <<>>
          /\ classes = <<>>
          /\ instances = <<>>
          /\ ctrl = Idle
          /\ kont = <<>>
          /\ source = <<>>
          /\ tokens = <<>>
          /\ start = 0
          /\ current = 0
          /\ column = 0
          /\ line = 1
          /\ parsed = <<>>

NextRun ==
    \/ Next
    \/ runParser
    \/ parse
    \/ parseDeclaration
    \/ parseSynchronize
    \/ parseReturn
    \/ runParsed

SpecRun == InitRun /\ [][NextRun]_vars

(***************************************************************************)
(* run from the source to the statements: the scanner, the filter of       *)
(* comment tokens and the parser, on short sources with comments.          *)
(***************************************************************************)
\* A variant of filter that lets block comments through.
filterInline(T) == SelectSeq(T, LAMBDA t : t.type # "INLINE_COMMENT")

\* .filter((t) => t.type != INLINE_COMMENT && t.type != BLOCK_COMMENT)
filter(T) == SelectSeq(T, LAMBDA t : t.type # "INLINE_COMMENT" /\ t.type # "BLOCK_COMMENT")

\* run: the tokens of scanTokens, filtered, are given to new Parser.
runFilter ==
    /\ pc = "tokens"
    /\ tokens' = filter(tokens)
    /\ pc' = "Parser"
    /\ UNCHANGED <<source, start, current, column, line, parsed, hadError, stderr,
                   interpreterVars>>

\* The characters of which every source of up to MaxSource characters is
\* scanned and parsed.
CommentAlphabet == {"/", "*", "\n", "1", ";", "o", "\""}

\* Longer sources that are scanned and parsed too.
CommentSources ==
    {\* /*1*/1;//o
     <<"/", "*", "1", "*", "/", "1", ";", "/", "/", "o">>,
     \* 1/*
     \* */;o;
     <<"1", "/", "*", "\n", "*", "/", ";", "o", ";">>,
     \* 1;//*/
     \* o=1;
     <<"1", ";", "/", "/", "*", "/", "\n", "o", "=", "1", ";">>,
     \* /*/**/1;*/
     <<"/", "*", "/", "*", "*", "/", "1", ";", "*", "/">>,
     \* "//";/*"*/
     <<"\"", "/", "/", "\"", ";", "/", "*", "\"", "*", "/">>,
     \* @ 1;
     <<"@", " ", "1", ";">>}

InitSyntax ==
    /\ source \in UNION {[1..n -> CommentAlphabet] : n \in 0..MaxSource} \cup CommentSources
    /\ tokens = <<>>
    /\ start = 0
    /\ current = 0
    /\ column = 0
    /\ line = 1
    /\ parsed = <<>>
    /\ pc = "Scanner"
    /\ hadError = FALSE
    /\ stderr = <<>>
    /\ args = 1
    /\ input = <<>>
    /\ lineNo = 0
    /\ hadRuntimeError = FALSE
    /\ exitCode = -1
    /\ stdout = <<>>
    /\ stages = <<>>
    /\ locals = [x \in {} |-> 0]
    /\ environment = Globals
    /\ envs = <<generateNativeEnvironment>>
    /\ funs = <<>>
    /\ classes = <<>>
    /\ instances = <<>>
    /\ ctrl = Idle
    /\ kont = <<>>

NextSyntax ==
    \/ NextScan
    \/ runFilter
    \/ NextParse

SpecSyntax == InitSyntax /\ [][NextSyntax]_vars

(***************************************************************************)
(* Properties.                                                             *)
(***************************************************************************)
HasFrame(k) == \E j \in 1..Len(kont) : kont[j].k = k

\* A statement has just ended: normally, or by an exception leaving it.
StatementEnded == ctrl.c \in {"done", "throw"} /\ TopIs("execute")

CallEnded == ctrl.c \in {"done", "throw"} /\ TopIs("LoxFunctionCall")

\* C1: when the execution of a statement ends - normally, by a return or by
\* a runtime error - this.environment is the environment the statement
\* started in; and when the body of a function has ended, it is the
\* environment of the caller.
C1_EnvironmentRestored ==
    /\ StatementEnded => environment = Top(kont).before
    /\ CallEnded => environment = Top(kont).caller

\* A runtime error leaves a block statement that runs inside a function call.
C1_Witness ==
    /\ StatementEnded
    /\ ctrl.c = "throw" /\ ctrl.kind = "RuntimeError"
    /\ Top(kont).stmt.type = "Block"
    /\ HasFrame("LoxFunctionCall")
    /\ environment = Top(kont).before
    /\ environment # Len(envs)

\* The environment `distance' links up from this.environment exists and
\* binds name.
BoundAt(expr, name) ==
    LET a == ancestor(envs, environment, locals[expr.id])
    IN  a # 0 /\ Has(envs[a].values, name)

\* A read through lookUpVariable or visitSuperExpr is about to happen.
ReadsResolved ==
    /\ Interpreting
    /\ ctrl.c = "eval"
    /\ ctrl.expr.type \in {"Variable", "This", "Super"}
    /\ Has(locals, ctrl.expr.id)

\* visitAssignExpr has the value and is about to use the recorded distance.
AssignsResolved ==
    /\ Interpreting
    /\ ctrl.c = "value"
    /\ TopIs("Assign")
    /\ Has(locals, Top(kont).expr.id)

\* The assignment is evaluated inside the initializer of the `var' statement
\* that declares its name in the environment a.
InOwnInitializer(name, a) ==
    \E j \in 2..Len(kont) :
        /\ kont[j].k = "VarStmt"
        /\ kont[j].name = name
        /\ kont[j - 1].k = "execute"
        /\ kont[j - 1].before = a

\* An expression without a distance is about to be looked up.
ReadsGlobal ==
    /\ Interpreting
    /\ ctrl.c = "eval"
    /\ ctrl.expr.type \in {"Variable", "This"}
    /\ ~Has(locals, ctrl.expr.id)

\* What a lookup in the globals environment, and nowhere else, gives.
GlobalOutcome(name) ==
    IF Has(envs[Globals].values, name)
    THEN Value(envs[Globals].values[name])
    ELSE RuntimeError("Undefined variable '" \o name \o "'")

\* C2 as claimed: a Variable, Assign, This or Super expression with a
\* recorded distance d finds, at every evaluation, a binding for its name in
\* the environment d links up; an expression without a distance is looked up
\* in globals only.
C2_Original ==
    [][/\ ReadsResolved => BoundAt(ctrl.expr, ctrl.expr.name)
       /\ AssignsResolved => BoundAt(Top(kont).expr, Top(kont).expr.name)
       /\ ReadsGlobal => ctrl' = GlobalOutcome(ctrl.expr.name)]_vars

\* C2 as amended: the same for Variable, This and Super; for an Assign the
\* environment d links up exists, and binds the name unless the assignment
\* is evaluated inside the initializer of the `var' statement that declares
\* the name in that environment.
C2_ResolverSound ==
    [][/\ ReadsResolved => BoundAt(ctrl.expr, ctrl.expr.name)
       /\ AssignsResolved =>
            LET expr == Top(kont).expr
                a == ancestor(envs, environment, locals[expr.id])
            IN  /\ a # 0
                /\ Has(envs[a].values, expr.name) \/ InOwnInitializer(expr.name, a)
       /\ ReadsGlobal => ctrl' = GlobalOutcome(ctrl.expr.name)]_vars

\* A name is read two or more environments up from the current one.
C2_Witness ==
    /\ ReadsResolved
    /\ locals[ctrl.expr.id] >= 2
    /\ BoundAt(ctrl.expr, ctrl.expr.name)

CompileErrorIn(r) == \E i \in 1..Len(stderr) : stderr[i].run = r /\ stderr[i].kind = "Error"

RuntimeErrorIn(r) == \E i \in 1..Len(stderr) : stderr[i].run = r /\ stderr[i].kind = "Runtime error"

PrintedIn(r) == \E i \in 1..Len(stdout) : stdout[i].run = r /\ stdout[i].src = "print"

SyntaxErrorIn(r) == Len(input[r].scanErrors) + Len(input[r].parseErrors) > 0

Entered(stage) == \E i \in 1..Len(stages) : stages[i] = stage

\* C3: the stages of run are entered in order; after a scan or parse error
\* neither the resolver nor the evaluator is entered, after a resolve error
\* the evaluator is not; a source with a compile error prints nothing and
\* raises no runtime error.
C3_StagesGated ==
    /\ stages \in {<<>>, <<"scan">>, <<"scan", "parse">>, <<"scan", "parse", "resolve">>,
                   <<"scan", "parse", "resolve", "interpret">>}
    /\ (lineNo >= 1 /\ pc # "run") =>
          /\ (Entered("parse") /\ SyntaxErrorIn(lineNo)) =>
                ~Entered("resolve") /\ ~Entered("interpret")
          /\ CompileErrorIn(lineNo) => ~Entered("interpret")
    /\ \A r \in 1..lineNo : CompileErrorIn(r) => ~PrintedIn(r) /\ ~RuntimeErrorIn(r)

\* A source whose only error is a resolve error, with a print statement the
\* evaluator would have run, has been through run.
C3_Witness ==
    /\ pc = "ran"
    /\ stages = <<"scan", "parse", "resolve">>
    /\ CompileErrorIn(lineNo) /\ ~SyntaxErrorIn(lineNo)
    /\ input[lineNo].statements[1].type = "Print"

Unwinding == Interpreting /\ ctrl.c = "throw" /\ ctrl.kind = "RuntimeError"

RuntimeReports(r) ==
    Cardinality({i \in 1..Len(stderr) : stderr[i].run = r /\ stderr[i].kind = "Runtime error"})

\* C4: a runtime error leaves one activation after the other, none of them
\* handling it, until interpret reports it once and sets hadRuntimeError;
\* nothing is printed or written on the way, what was printed and written
\* before stays, and the run executes nothing after the report.
C4_RuntimeErrorUnwinds ==
    [][/\ Unwinding =>
            /\ stdout' = stdout
            /\ heapVars' = heapVars
            /\ IF TopIs("interpret")
               THEN /\ stderr' = Append(stderr, [run |-> lineNo, kind |-> "Runtime error",
                                                 message |-> ctrl.message])
                    /\ hadRuntimeError'
                    /\ pc' = "ran" /\ ctrl' = Idle /\ kont' = <<>>
               ELSE /\ ctrl' = ctrl
                    /\ kont' = Pop(kont)
                    /\ stderr' = stderr
       /\ \A r \in 1..Len(input) : RuntimeReports(r) <= 1
       /\ (lineNo >= 1 /\ pc # "run" /\ RuntimeErrorIn(lineNo)) => ~Interpreting']_vars

\* The error of ProgDeepError has been reported: raised inside a block inside
\* a function called from a block, after a print and an assignment.
C4_Witness ==
    /\ pc = "ran"
    /\ hadRuntimeError
    /\ RuntimeReports(lineNo) = 1
    /\ environment = Globals
    /\ Len(envs) >= 4
    /\ Has(envs[Globals].values, "g") /\ envs[Globals].values["g"] = Num(1)
    /\ PrintedIn(lineNo)
    /\ Len(stdout) = 1

\* All operands of a call expression have been evaluated.
CallReady ==
    /\ Interpreting
    /\ ctrl.c = "value"
    /\ TopIs("Call")
    /\ Len(Top(kont).args) + (IF Top(kont).hasCallee THEN 1 ELSE 0) = Len(Top(kont).expr.args)

ReadyCallee == IF Top(kont).hasCallee THEN Top(kont).callee ELSE ctrl.v

ReadyArgs == IF Top(kont).hasCallee THEN Append(Top(kont).args, ctrl.v) ELSE <<>>

\* The number of parameters a callable declares.
Declared(v) ==
    CASE v.t = "fun" -> Len(funs[v.f].declaration.params)
      [] v.t = "native" -> 0
      [] v.t = "class" ->
            LET initializer == findMethod(classes, v.c, "init")
            IN  IF initializer = 0 THEN 0 ELSE Len(funs[initializer].declaration.params)

\* C5: call() is reached only with a callable and as many arguments as it
\* declares parameters; otherwise the call expression raises the runtime
\* error and changes nothing.
C5_CallChecked ==
    [][/\ CallReady =>
            IF ReadyCallee.t \notin {"fun", "native", "class"}
            THEN /\ ctrl' = RuntimeError("Can only call functions and classes.")
                 /\ heapVars' = heapVars /\ stdout' = stdout /\ environment' = environment
            ELSE IF Len(ReadyArgs) # Declared(ReadyCallee)
            THEN /\ ctrl'.c = "throw" /\ ctrl'.kind = "RuntimeError"
                 /\ ctrl'.message = "Expected " \o ToString(Declared(ReadyCallee))
                                     \o " arguments but got " \o ToString(Len(ReadyArgs)) \o "."
                 /\ heapVars' = heapVars /\ stdout' = stdout /\ environment' = environment
            ELSE ctrl' = Invoke(ReadyCallee, ReadyArgs)
       /\ (Interpreting /\ ctrl.c = "call") =>
            /\ ctrl.callee.t \in {"fun", "native", "class"}
            /\ Len(ctrl.args) = Declared(ctrl.callee)
       /\ (Interpreting' /\ Len(kont') > Len(kont) /\ Top(kont').k = "executeBlock"
           /\ kont'[Len(kont') - 1].k = "LoxFunctionCall") =>
            (Interpreting /\ ctrl.c = "call")]_vars

\* A function that declares one parameter is about to be refused two arguments.
C5_Witness ==
    /\ CallReady
    /\ ReadyCallee.t = "fun"
    /\ Declared(ReadyCallee) = 1
    /\ Len(ReadyArgs) = 2

\* The function whose call is the innermost one in progress, or 0.
InnermostCall ==
    LET calls == {j \in 1..Len(kont) : kont[j].k = "LoxFunctionCall"}
    IN  IF calls = {} THEN 0 ELSE kont[SetMax(calls)].f

\* A this expression is about to be evaluated in the body of a method.
ThisInMethod ==
    /\ Interpreting
    /\ ctrl.c = "eval"
    /\ ctrl.expr.type = "This"
    /\ InnermostCall # 0
    /\ funs[InnermostCall].bound # 0

\* C6: in the body of a method, this evaluates to the instance the method
\* was bound to: the receiver of the property access, the instance super
\* was evaluated for, or the instance a class call created.
C6_ThisIsReceiver ==
    ThisInMethod =>
        /\ ~lookUpThrows("this", ctrl.expr)
        /\ lookUpVariable("this", ctrl.expr) = InstV(funs[InnermostCall].bound)

\* this is evaluated in a method of one instance after a call, made from
\* that body, of the same method source on another instance has returned.
C6_Witness ==
    /\ ThisInMethod
    /\ \E j \in 1..Len(funs) :
          /\ funs[j].bound # 0
          /\ funs[j].bound # funs[InnermostCall].bound
          /\ j > InnermostCall

\* C7: a function value keeps the environment its declaration was executed
\* in; every call creates a new environment whose enclosing environment is
\* that one, not the caller's, holding the parameters; the counter prints
\* 1, 2, 3.
C7_ClosureCaptured ==
    [][/\ (Interpreting /\ ctrl.c = "visit" /\ ctrl.stmt.type = "Fun") =>
            /\ Len(funs') = Len(funs) + 1
            /\ funs'[Len(funs')].closure = environment
            /\ envs'[environment].values[ctrl.stmt.name] = FunV(Len(funs'))
       /\ (Interpreting /\ ctrl.c = "call" /\ ctrl.callee.t = "fun") =>
            /\ environment' = Len(envs) + 1
            /\ Len(envs') = Len(envs) + 1
            /\ envs'[environment'].enclosing = funs[ctrl.callee.f].closure
            /\ \A i \in 1..Len(envs) : envs'[i] = envs[i]
            /\ \A i \in 1..Len(ctrl.args) :
                  Has(envs'[environment'].values, funs[ctrl.callee.f].declaration.params[i])
       /\ \A j \in 1..Len(kont) :
             kont[j].k = "LoxFunctionCall" =>
                envs[kont[j].env].enclosing = funs[kont[j].f].closure
       /\ (pc = "ran" /\ args = 1 /\ input = <<ProgCounter>>) =>
             [i \in 1..Len(stdout) |-> stdout[i].text] = <<"1", "2", "3">>]_vars

\* The third call of the counter: its closure is neither the caller's
\* environment nor globals, and the function that created it has returned.
C7_Witness ==
    /\ Interpreting
    /\ ctrl.c = "call" /\ ctrl.callee.t = "fun"
    /\ funs[ctrl.callee.f].closure # environment
    /\ funs[ctrl.callee.f].closure # Globals
    /\ ~HasFrame("LoxFunctionCall")
    /\ Len(stdout) = 2

Returning == Interpreting /\ ctrl.c = "throw" /\ ctrl.kind = "ReturnError"

\* What a call of function f yields when its body is left with v.
Yields(f, v) == IF funs[f].isInitializer THEN InstV(funs[f].bound) ELSE v

\* C8: a return leaves every activation up to the innermost call, which
\* yields the returned value; a body that ends otherwise yields nil; the
\* call of an initializer yields the instance in both cases; nothing is
\* executed between the return and the end of the call.
C8_ReturnUnwinds ==
    [][/\ Returning =>
            /\ stdout' = stdout /\ stderr' = stderr /\ heapVars' = heapVars
            /\ kont' = Pop(kont)
            /\ ctrl' = IF TopIs("LoxFunctionCall") THEN Value(Yields(Top(kont).f, ctrl.v))
                       ELSE ctrl
       /\ (Interpreting /\ ctrl.c = "done" /\ TopIs("LoxFunctionCall")) =>
            /\ kont' = Pop(kont)
            /\ ctrl' = Value(Yields(Top(kont).f, Nil))]_vars

\* The return of an initializer reaches the call of the initializer.
C8_Witness ==
    /\ Returning
    /\ TopIs("LoxFunctionCall")
    /\ funs[Top(kont).f].isInitializer
    /\ ctrl.v = Nil

CompileErrorReported == \E i \in 1..Len(stderr) : stderr[i].kind = "Error"

RuntimeErrorReported == \E i \in 1..Len(stderr) : stderr[i].kind = "Runtime error"

\* C9: a file run exits with 65 exactly when a compile error was reported,
\* with 70 exactly when none was and a runtime error was reported, and with
\* 0 otherwise; more than one argument exits with 64.
C9_ExitCodes ==
    /\ (pc = "exited" /\ args = 1) =>
          /\ (exitCode = 65) = CompileErrorReported
          /\ (exitCode = 70) = (~CompileErrorReported /\ RuntimeErrorReported)
          /\ (exitCode = 0) = (~CompileErrorReported /\ ~RuntimeErrorReported)
    /\ (pc = "exited" /\ args > 1) => exitCode = 64

\* A file that printed and then raised a runtime error has exited.
C9_Witness ==
    /\ pc = "exited" /\ args = 1
    /\ exitCode = 70
    /\ Len(stdout) > 0

\* C10: in the prompt hadError is false when a line starts to run,
\* hadRuntimeError is never cleared, no flag ends the loop, and a line
\* without compile errors is evaluated whatever the lines before it did.
C10_PromptFlags ==
    [][/\ (args = 0 /\ pc = "run") => ~hadError
       /\ hadRuntimeError => hadRuntimeError'
       /\ (args = 0 /\ pc = "ran") => pc' = "prompt"
       /\ (args = 0 /\ pc = "prompt" /\ lineNo < Len(input) /\ input[lineNo + 1].kind # "quit") =>
             pc' = "run" /\ lineNo' = lineNo + 1
       /\ (args = 0 /\ pc = "resolved" /\ ~CompileErrorIn(lineNo)) => Interpreting'
       /\ args = 0 => exitCode' \in {-1, 0}]_vars

\* The line after a line with a compile error is being evaluated.
C10_Witness ==
    /\ args = 0
    /\ lineNo >= 2
    /\ Interpreting
    /\ CompileErrorIn(lineNo - 1)

(***************************************************************************)
(* What a program text says, read off the syntax tree without the          *)
(* resolver's scopes.                                                      *)
(***************************************************************************)
RECURSIVE ReadsName(_, _)
\* The expression contains a read of the variable name.
ReadsName(expr, name) ==
    CASE expr.type = "Variable" -> expr.name = name
      [] expr.type = "Assign" -> ReadsName(expr.value, name)
      [] expr.type \in {"Binary", "Logical"} ->
            ReadsName(expr.left, name) \/ ReadsName(expr.right, name)
      [] expr.type = "Unary" -> ReadsName(expr.right, name)
      [] expr.type = "Grouping" -> ReadsName(expr.expression, name)
      [] expr.type = "Call" ->
            \/ ReadsName(expr.callee, name)
            \/ \E i \in 1..Len(expr.args) : ReadsName(expr.args[i], name)
      [] expr.type = "Get" -> ReadsName(expr.object, name)
      [] expr.type = "Set" -> ReadsName(expr.object, name) \/ ReadsName(expr.value, name)
      [] OTHER -> FALSE

RECURSIVE OwnInitializerRead(_, _)
\* The statement holds a `var' statement, inside a block or a function body
\* (local = TRUE when stmt itself is inside one), whose initializer reads the
\* variable it declares.
OwnInitializerRead(stmt, local) ==
    CASE stmt.type = "Var" ->
            local /\ stmt.initializer.type # "null" /\ ReadsName(stmt.initializer, stmt.name)
      [] stmt.type = "Block" ->
            \E i \in 1..Len(stmt.statements) : OwnInitializerRead(stmt.statements[i], TRUE)
      [] stmt.type = "Fun" ->
            \E i \in 1..Len(stmt.body) : OwnInitializerRead(stmt.body[i], TRUE)
      [] stmt.type = "Class" ->
            \E i \in 1..Len(stmt.methods) : OwnInitializerRead(stmt.methods[i], TRUE)
      [] stmt.type = "If" ->
            \/ OwnInitializerRead(stmt.thenBranch, local)
            \/ stmt.elseBranch.type # "null" /\ OwnInitializerRead(stmt.elseBranch, local)
      [] stmt.type = "While" -> OwnInitializerRead(stmt.body, local)
      [] OTHER -> FALSE

\* The source of the current run went through the resolver.
Resolved ==
    /\ lineNo >= 1
    /\ pc \in {"resolved", "interpret", "ran", "exited"}
    /\ Entered("resolve")

\* The resolver reported message for the current source.
Reported(message) ==
    \E i \in 1..Len(stderr) :
        stderr[i].run = lineNo /\ stderr[i].kind = "Error" /\ stderr[i].message = message

ProgramHas(P(_, _)) ==
    \E i \in 1..Len(input[lineNo].statements) : P(input[lineNo].statements[i], FALSE)

\* C11: the resolver reports "Can't read local variable in its own
\* initializer" exactly for the sources in which a `var' statement inside a
\* block or function body reads the declared name in its initializer - never
\* for one at global scope - and such a source is not evaluated.
C11_OwnInitializer ==
    Resolved =>
        /\ Reported("Can't read local variable in its own initializer")
              = ProgramHas(OwnInitializerRead)
        /\ ProgramHas(OwnInitializerRead) =>
              ~Entered("interpret") /\ ~PrintedIn(lineNo)

\* A source whose inner `var a = a + 1' shadows a defined global a has been
\* refused, although a print stands before and after the declaration.
C11_Witness ==
    /\ Resolved
    /\ pc = "ran"
    /\ input[lineNo] = ProgShadowInitializer
    /\ Reported("Can't read local variable in its own initializer")
    /\ stdout = <<>>

RECURSIVE ReturnFault(_, _, _)
\* The statement, standing in a function of kind function ("NONE" outside
\* every function), holds a return statement outside every function
\* (wanted = "top"), or one with a value whose innermost enclosing function
\* is a method named init (wanted = "init").
ReturnFault(stmt, function, wanted) ==
    CASE stmt.type = "Return" ->
            \/ wanted = "top" /\ function = "NONE"
            \/ wanted = "init" /\ function = "INITIALIZER" /\ stmt.value.type # "null"
      [] stmt.type = "Block" ->
            \E i \in 1..Len(stmt.statements) : ReturnFault(stmt.statements[i], function, wanted)
      [] stmt.type = "Fun" ->
            \E i \in 1..Len(stmt.body) : ReturnFault(stmt.body[i], "FUNCTION", wanted)
      [] stmt.type = "Class" ->
            \E m \in 1..Len(stmt.methods) : \E i \in 1..Len(stmt.methods[m].body) :
                ReturnFault(stmt.methods[m].body[i],
                            IF stmt.methods[m].name = "init" THEN "INITIALIZER" ELSE "METHOD",
                            wanted)
      [] stmt.type = "If" ->
            \/ ReturnFault(stmt.thenBranch, function, wanted)
            \/ stmt.elseBranch.type # "null" /\ ReturnFault(stmt.elseBranch, function, wanted)
      [] stmt.type = "While" -> ReturnFault(stmt.body, function, wanted)
      [] OTHER -> FALSE

ProgramReturnFault(wanted) ==
    \E i \in 1..Len(input[lineNo].statements) :
        ReturnFault(input[lineNo].statements[i], "NONE", wanted)

\* C12: "Can't return from top-level code" is reported exactly for the
\* sources with a return outside every function, "Can't return a value from
\* an initializer" exactly for those with a `return VALUE' whose innermost
\* function is a method named init - so not for a bare return in init, for
\* a return in a function nested in init, or for a function named init -
\* also for a return that follows a nested function; a source with either
\* is not evaluated.
C12_ReturnPlacement ==
    Resolved =>
        /\ Reported("Can't return from top-level code") = ProgramReturnFault("top")
        /\ Reported("Can't return a value from an initializer") = ProgramReturnFault("init")
        /\ (ProgramReturnFault("top") \/ ProgramReturnFault("init")) =>
              ~Entered("interpret") /\ ~PrintedIn(lineNo)

\* The `return 2' that follows the nested function f in init, inside a loop
\* and a block, has been reported; the `return 1' of f has not.
C12_Witness ==
    /\ Resolved
    /\ pc = "ran"
    /\ input[lineNo] = ProgReturnRestored
    /\ Reported("Can't return a value from an initializer")
    /\ Cardinality({i \in 1..Len(stderr) : stderr[i].kind = "Error"}) = 1

RECURSIVE HasExpr(_, _)
\* The expression contains an expression of the type.
HasExpr(expr, type) ==
    \/ expr.type = type
    \/ CASE expr.type = "Assign" -> HasExpr(expr.value, type)
         [] expr.type \in {"Binary", "Logical"} ->
               HasExpr(expr.left, type) \/ HasExpr(expr.right, type)
         [] expr.type = "Unary" -> HasExpr(expr.right, type)
         [] expr.type = "Grouping" -> HasExpr(expr.expression, type)
         [] expr.type = "Call" ->
               \/ HasExpr(expr.callee, type)
               \/ \E i \in 1..Len(expr.args) : HasExpr(expr.args[i], type)
         [] expr.type = "Get" -> HasExpr(expr.object, type)
         [] expr.type = "Set" -> HasExpr(expr.object, type) \/ HasExpr(expr.value, type)
         [] OTHER -> FALSE

RECURSIVE UsedIn(_, _, _)
\* The statement, standing in the body of a class of kind class ("NONE"
\* outside every class body, "CLASS" without and "SUBCLASS" with a
\* superclass), holds an expression of the type whose innermost enclosing
\* class body is of kind fault.class.
UsedIn(stmt, class, fault) ==
    LET Here(expr) == class = fault.class /\ HasExpr(expr, fault.type)
    IN  CASE stmt.type \in {"Expression", "Print"} -> Here(stmt.expression)
          [] stmt.type = "Var" -> stmt.initializer.type # "null" /\ Here(stmt.initializer)
          [] stmt.type = "Return" -> stmt.value.type # "null" /\ Here(stmt.value)
          [] stmt.type = "Block" ->
                \E i \in 1..Len(stmt.statements) : UsedIn(stmt.statements[i], class, fault)
          [] stmt.type = "Fun" ->
                \E i \in 1..Len(stmt.body) : UsedIn(stmt.body[i], class, fault)
          [] stmt.type = "Class" ->
                \E m \in 1..Len(stmt.methods) : \E i \in 1..Len(stmt.methods[m].body) :
                    UsedIn(stmt.methods[m].body[i],
                           IF stmt.superclass.type # "null" THEN "SUBCLASS" ELSE "CLASS",
                           fault)
          [] stmt.type = "If" ->
                \/ Here(stmt.condition)
                \/ UsedIn(stmt.thenBranch, class, fault)
                \/ stmt.elseBranch.type # "null" /\ UsedIn(stmt.elseBranch, class, fault)
          [] stmt.type = "While" -> Here(stmt.condition) \/ UsedIn(stmt.body, class, fault)
          [] OTHER -> FALSE

ProgramUses(type, class) ==
    \E i \in 1..Len(input[lineNo].statements) :
        UsedIn(input[lineNo].statements[i], "NONE", [type |-> type, class |-> class])

\* C13: "Can't use 'this' outside of a class" and "Can't use 'super' outside
\* of a class" are reported exactly for the sources with a this, or a super,
\* outside every class body, and "Can't use 'super' in a class with no
\* superclass" exactly for those with a super whose innermost class body
\* belongs to a class without superclass - also a class nested in a method
\* of a subclass; what follows a nested class is judged against the outer
\* class; a source with such a use is not evaluated.
C13_ClassContext ==
    Resolved =>
        /\ Reported("Can't use 'this' outside of a class") = ProgramUses("This", "NONE")
        /\ Reported("Can't use 'super' outside of a class") = ProgramUses("Super", "NONE")
        /\ Reported("Can't use 'super' in a class with no superclass")
              = ProgramUses("Super", "CLASS")
        /\ (ProgramUses("This", "NONE") \/ ProgramUses("Super", "NONE")
            \/ ProgramUses("Super", "CLASS")) => ~Entered("interpret") /\ ~PrintedIn(lineNo)

\* The super of a class without superclass, declared in a method of the
\* subclass B, has been reported.
C13_Witness ==
    /\ Resolved
    /\ pc = "ran"
    /\ input[lineNo] = ProgNestedClassSuper
    /\ Reported("Can't use 'super' in a class with no superclass")
    /\ ~Reported("Can't use 'super' outside of a class")

\* Both operands of a binary expression have been evaluated.
BinaryReady ==
    /\ Interpreting
    /\ ctrl.c = "value"
    /\ TopIs("Binary")
    /\ Top(kont).hasLeft

\* v is the number that is the sum of the numbers a and b.
IsSum(v, a, b) ==
    /\ v.t = "num"
    /\ v.d > 0
    /\ v.n * (a.d * b.d) = (a.n * b.d + b.n * a.d) * v.d

\* C14 as claimed: + yields the sum of two numbers and, when either operand
\* is a string, the concatenation of what stringify makes of the operands.
C14_Original ==
    [][(BinaryReady /\ Top(kont).expr.operator = "PLUS") =>
          LET left == Top(kont).left
              right == ctrl.v
          IN  IF left.t = "num" /\ right.t = "num"
              THEN ctrl'.c = "value" /\ IsSum(ctrl'.v, left, right)
              ELSE (left.t = "str" \/ right.t = "str") =>
                      ctrl' = Value(Str(stringify(left, funs, classes, instances)
                                        \o stringify(right, funs, classes, instances)))]_vars

\* C14 as amended: + yields the sum of two numbers and the concatenation of
\* two strings; every other pair of operands, a string and a number
\* included, raises "Operands must be two numbers or two strings." and
\* changes nothing.
C14_PlusStrict ==
    [][(BinaryReady /\ Top(kont).expr.operator = "PLUS") =>
          LET left == Top(kont).left
              right == ctrl.v
          IN  IF left.t = "num" /\ right.t = "num"
              THEN ctrl'.c = "value" /\ IsSum(ctrl'.v, left, right)
              ELSE IF left.t = "str" /\ right.t = "str"
              THEN ctrl' = Value(Str(left.s \o right.s))
              ELSE /\ ctrl' = RuntimeError("Operands must be two numbers or two strings.")
                   /\ heapVars' = heapVars /\ stdout' = stdout]_vars

\* + is about to be applied to a string and a number, after a sum and a
\* concatenation have been printed.
C14_Witness ==
    /\ BinaryReady
    /\ Top(kont).expr.operator = "PLUS"
    /\ Top(kont).left.t = "str"
    /\ ctrl.v.t = "num"
    /\ [i \in 1..Len(stdout) |-> stdout[i].text] = <<"3", "ab">>

NumericOperators ==
    {"MINUS", "STAR", "SLASH", "LESS", "LESS_EQUAL", "GREATER", "GREATER_EQUAL"}

\* C15: - * / < <= > >= evaluate the left operand, then the right one,
\* whatever the left one is, and only then raise "Operands must be numbers."
\* unless both are numbers; / on two numbers with a zero divisor raises
\* "Cannot divide by zero."; otherwise the operator yields a value.
C15_NumericOperands ==
    [][/\ (Interpreting /\ ctrl.c = "eval" /\ ctrl.expr.type = "Binary") =>
            ctrl' = Eval(ctrl.expr.left)
       /\ (Interpreting /\ ctrl.c = "value" /\ TopIs("Binary") /\ ~Top(kont).hasLeft) =>
            /\ ctrl' = Eval(Top(kont).expr.right)
            /\ heapVars' = heapVars /\ stdout' = stdout /\ stderr' = stderr
       /\ (BinaryReady /\ Top(kont).expr.operator \in NumericOperators) =>
            LET left == Top(kont).left
                right == ctrl.v
            IN  IF left.t # "num" \/ right.t # "num"
                THEN ctrl' = RuntimeError("Operands must be numbers.")
                ELSE IF Top(kont).expr.operator = "SLASH" /\ right.n = 0
                THEN ctrl' = RuntimeError("Cannot divide by zero.")
                ELSE ctrl'.c = "value"]_vars

\* < is about to be refused a string as left operand after the call that is
\* its right operand has printed and returned.
C15_Witness ==
    /\ BinaryReady
    /\ Top(kont).expr.operator = "LESS"
    /\ Top(kont).left.t = "str"
    /\ ctrl.v.t = "num"
    /\ Len(stdout) = 1 /\ stdout[1].text = "right"

\* The object of a property access has been evaluated.
GetReady == Interpreting /\ ctrl.c = "value" /\ TopIs("Get")

\* The object of a property assignment has been evaluated, its value not yet.
SetObjectReady == Interpreting /\ ctrl.c = "value" /\ TopIs("Set") /\ Top(kont).object = 0

\* Object and value of a property assignment have been evaluated.
SetValueReady == Interpreting /\ ctrl.c = "value" /\ TopIs("Set") /\ Top(kont).object # 0

\* C16: obj.name yields the field when the instance has one of that name,
\* otherwise the method of its class (or of a superclass) bound to the
\* instance, otherwise raises "Undefined property 'name'"; obj.name = v
\* sets that one field of that one instance and yields v; a get or set on
\* what is not an instance raises "Only instances have properties." or
\* "Only instances have fields.", the set without evaluating its value.
C16_Properties ==
    [][/\ GetReady =>
            LET name == Top(kont).expr.name
                method == findMethod(classes, instances[ctrl.v.i].klass, name)
            IN  IF ctrl.v.t # "inst"
                THEN ctrl' = RuntimeError("Only instances have properties.")
                     /\ heapVars' = heapVars
                ELSE IF name \in DOMAIN instances[ctrl.v.i].fields
                THEN ctrl' = Value(instances[ctrl.v.i].fields[name]) /\ heapVars' = heapVars
                ELSE IF method # 0
                THEN /\ ctrl'.c = "value" /\ ctrl'.v.t = "fun"
                     /\ funs'[ctrl'.v.f].declaration = funs[method].declaration
                     /\ funs'[ctrl'.v.f].closure > Len(envs)
                     /\ envs'[funs'[ctrl'.v.f].closure] =
                           [values |-> [n \in {"this"} |-> ctrl.v],
                            enclosing |-> funs[method].closure]
                     /\ instances' = instances
                ELSE ctrl' = RuntimeError("Undefined property '" \o name \o "'")
                     /\ heapVars' = heapVars
       /\ SetObjectReady =>
            /\ heapVars' = heapVars /\ stdout' = stdout
            /\ IF ctrl.v.t # "inst"
               THEN ctrl' = RuntimeError("Only instances have fields.") /\ kont' = Pop(kont)
               ELSE ctrl' = Eval(Top(kont).expr.value)
       /\ SetValueReady =>
            LET i == Top(kont).object
                name == Top(kont).expr.name
            IN  /\ ctrl' = Value(ctrl.v)
                /\ kont' = Pop(kont)
                /\ DOMAIN instances'[i].fields = DOMAIN instances[i].fields \cup {name}
                /\ instances'[i].fields[name] = ctrl.v
                /\ \A n \in DOMAIN instances[i].fields :
                      n # name => instances'[i].fields[n] = instances[i].fields[n]
                /\ \A j \in 1..Len(instances) : j # i => instances'[j] = instances[j]
                /\ Len(instances') = Len(instances)
                /\ <<envs', funs', classes'>> = <<envs, funs, classes>>]_vars

\* b.m is read while b has a field m and its superclass a method m.
C16_Witness ==
    /\ GetReady
    /\ ctrl.v.t = "inst"
    /\ Top(kont).expr.name \in DOMAIN instances[ctrl.v.i].fields
    /\ findMethod(classes, instances[ctrl.v.i].klass, Top(kont).expr.name) # 0
    /\ classes[instances[ctrl.v.i].klass].superclass # 0

RECURSIVE HoldsSuper(_, _)
\* The expression contains the super expression of that identity.
HoldsSuper(expr, id) ==
    CASE expr.type = "Super" -> expr.id = id
      [] expr.type = "Assign" -> HoldsSuper(expr.value, id)
      [] expr.type \in {"Binary", "Logical"} ->
            HoldsSuper(expr.left, id) \/ HoldsSuper(expr.right, id)
      [] expr.type = "Unary" -> HoldsSuper(expr.right, id)
      [] expr.type = "Grouping" -> HoldsSuper(expr.expression, id)
      [] expr.type = "Call" ->
            \/ HoldsSuper(expr.callee, id)
            \/ \E i \in 1..Len(expr.args) : HoldsSuper(expr.args[i], id)
      [] expr.type = "Get" -> HoldsSuper(expr.object, id)
      [] expr.type = "Set" -> HoldsSuper(expr.object, id) \/ HoldsSuper(expr.value, id)
      [] OTHER -> FALSE

RECURSIVE AppearsIn(_, _)
\* The super expression appears in the statement, outside every class
\* declared inside the statement.
AppearsIn(stmt, id) ==
    CASE stmt.type \in {"Expression", "Print"} -> HoldsSuper(stmt.expression, id)
      [] stmt.type = "Var" -> stmt.initializer.type # "null" /\ HoldsSuper(stmt.initializer, id)
      [] stmt.type = "Return" -> stmt.value.type # "null" /\ HoldsSuper(stmt.value, id)
      [] stmt.type = "Block" ->
            \E i \in 1..Len(stmt.statements) : AppearsIn(stmt.statements[i], id)
      [] stmt.type = "Fun" -> \E i \in 1..Len(stmt.body) : AppearsIn(stmt.body[i], id)
      [] stmt.type = "If" ->
            \/ HoldsSuper(stmt.condition, id)
            \/ AppearsIn(stmt.thenBranch, id)
            \/ stmt.elseBranch.type # "null" /\ AppearsIn(stmt.elseBranch, id)
      [] stmt.type = "While" -> HoldsSuper(stmt.condition, id) \/ AppearsIn(stmt.body, id)
      [] OTHER -> FALSE

\* The classes in whose body the super expression textually appears.
SuperOwners(id) ==
    {c \in 1..Len(classes) :
        \E name \in DOMAIN classes[c].methods :
            AppearsIn(funs[classes[c].methods[name]].declaration, id)}

\* The instance of the innermost method call in progress, or 0.
CurrentThis ==
    LET calls == {j \in 1..Len(kont) :
                     kont[j].k = "LoxFunctionCall" /\ funs[kont[j].f].bound # 0}
    IN  IF calls = {} THEN 0 ELSE funs[kont[SetMax(calls)].f].bound

\* A super expression is about to be evaluated.
SuperReady == Interpreting /\ ctrl.c = "eval" /\ ctrl.expr.type = "Super"

\* C17: super.m yields the method m found from the superclass of the class
\* in whose body the expression appears, whatever the class of the receiver,
\* bound to the current this; super is read at the recorded distance d and
\* this at d - 1; without such a method "Undefined property 'm'." is raised.
C17_SuperLookup ==
    [][SuperReady =>
          LET d == locals[ctrl.expr.id]
              method(c) == findMethod(classes, classes[c].superclass, ctrl.expr.method)
          IN  /\ SuperOwners(ctrl.expr.id) # {}
              /\ CurrentThis # 0
              /\ getAt(envs, environment, d - 1, "this") = InstV(CurrentThis)
              /\ \A c \in SuperOwners(ctrl.expr.id) :
                    /\ classes[c].superclass # 0
                    /\ getAt(envs, environment, d, "super") = ClassV(classes[c].superclass)
                    /\ IF method(c) = 0
                       THEN /\ ctrl' = RuntimeError("Undefined property '"
                                                       \o ctrl.expr.method \o "'.")
                            /\ heapVars' = heapVars
                       ELSE /\ ctrl'.c = "value" /\ ctrl'.v.t = "fun"
                            /\ funs'[ctrl'.v.f].declaration = funs[method(c)].declaration
                            /\ funs'[ctrl'.v.f].bound = CurrentThis
                            /\ envs'[funs'[ctrl'.v.f].closure] =
                                  [values |-> [n \in {"this"} |-> InstV(CurrentThis)],
                                   enclosing |-> funs[method(c)].closure]]_vars

\* super.m is evaluated in a function nested in a method of B for an instance
\* of C: the receiver's class, its superclass B and B's superclass A all
\* have a method m, each a different one.
C17_Witness ==
    /\ SuperReady
    /\ CurrentThis # 0
    /\ InnermostCall # 0 /\ funs[InnermostCall].bound = 0
    /\ \E c \in SuperOwners(ctrl.expr.id) :
          LET r == instances[CurrentThis].klass
          IN  /\ r # c
              /\ classes[r].superclass = c
              /\ classes[c].superclass # 0
              /\ Has(classes[r].methods, ctrl.expr.method)
              /\ Has(classes[c].methods, ctrl.expr.method)
              /\ findMethod(classes, classes[c].superclass, ctrl.expr.method) # 0

\* The value of an assignment expression has been evaluated.
AssignReady == Interpreting /\ ctrl.c = "value" /\ TopIs("Assign")

\* The environment the assignment writes to: the one the recorded distance
\* leads to, or globals.
AssignTarget ==
    LET expr == Top(kont).expr
    IN  IF Has(locals, expr.id)
        THEN ancestor(envs, environment, locals[expr.id])
        ELSE Globals

\* The assignment fails: no other variable of `vars' than ctrl changes but
\* the expression frame is dropped.
AssignRaises ==
    /\ ctrl' = RuntimeError("Undefined variable '" \o Top(kont).expr.name \o "'")
    /\ heapVars' = heapVars
    /\ environment' = environment

\* The assignment rebinds the name in its target and yields the value.
AssignWrites ==
    LET name == Top(kont).expr.name
    IN  /\ ctrl' = Value(ctrl.v)
        /\ AssignTarget # 0
        /\ envs' = [envs EXCEPT ![AssignTarget].values =
                       [n \in DOMAIN @ \cup {name} |-> IF n = name THEN ctrl.v ELSE @[n]]]
        /\ <<funs', classes', instances', environment'>> =
              <<funs, classes, instances, environment>>

\* C18 as claimed: an assignment never creates a binding; without a recorded
\* distance and without a global of that name it raises "Undefined variable"
\* and changes no environment; otherwise it changes the one existing
\* binding of its target and yields the assigned value.
C18_Original ==
    [][AssignReady =>
          IF ~Has(locals, Top(kont).expr.id)
             /\ ~Has(envs[Globals].values, Top(kont).expr.name)
          THEN AssignRaises
          ELSE /\ AssignWrites
               /\ Has(envs[AssignTarget].values, Top(kont).expr.name)]_vars

\* C18 as amended: the same, except that an assignment with a recorded
\* distance that is evaluated inside the initializer of the `var' statement
\* declaring its name creates the binding in that statement's environment.
C18_AssignRebinds ==
    [][AssignReady =>
          IF ~Has(locals, Top(kont).expr.id)
             /\ ~Has(envs[Globals].values, Top(kont).expr.name)
          THEN AssignRaises
          ELSE /\ AssignWrites
               /\ \/ Has(envs[AssignTarget].values, Top(kont).expr.name)
                  \/ /\ Has(locals, Top(kont).expr.id)
                     /\ InOwnInitializer(Top(kont).expr.name, AssignTarget)]_vars

\* A name is assigned one environment up while globals binds the same name.
C18_Witness ==
    /\ AssignReady
    /\ Has(locals, Top(kont).expr.id)
    /\ locals[Top(kont).expr.id] = 1
    /\ AssignTarget # Globals
    /\ Has(envs[AssignTarget].values, Top(kont).expr.name)
    /\ Has(envs[Globals].values, Top(kont).expr.name)
    /\ envs[AssignTarget].values[Top(kont).expr.name] # ctrl.v

\* A name no environment binds is assigned without a recorded distance.
C18_WitnessUndefined ==
    /\ AssignReady
    /\ ~Has(locals, Top(kont).expr.id)
    /\ ~Has(envs[Globals].values, Top(kont).expr.name)

\* The left operand of a logical expression has been evaluated.
LogicalReady == Interpreting /\ ctrl.c = "value" /\ TopIs("Logical")

\* nil and false, and nothing else.
Falsy(v) == v = Nil \/ v = Bool(FALSE)

\* C19: a or b yields the value of a, not a boolean, without evaluating b
\* when a is truthy, and the value of b otherwise; a and b yields the value
\* of a without evaluating b when a is falsy, and the value of b otherwise;
\* nil and false alone are falsy: 0 and "" short-circuit or.
C19_ShortCircuit ==
    [][LogicalReady =>
          LET expr == Top(kont).expr
              short == IF expr.operator = "OR" THEN ~Falsy(ctrl.v) ELSE Falsy(ctrl.v)
          IN  /\ kont' = Pop(kont)
              /\ heapVars' = heapVars
              /\ stdout' = stdout
              /\ ctrl' = IF short THEN Value(ctrl.v) ELSE Eval(expr.right)]_vars

\* The left operand of an or whose right operand is a call is 0 or "".
C19_Witness ==
    /\ LogicalReady
    /\ Top(kont).expr.operator = "OR"
    /\ Top(kont).expr.right.type = "Call"
    /\ ctrl.v \in {Num(0), Str("")}

\* scanTokens has returned without reporting an error.
Scanned == pc = "tokens" /\ ~hadError

\* The tokens of the list but the EOF token at its end.
Lexemes ==
    LET T == SelectSeq(tokens, LAMBDA tk : tk.type # "EOF")
    IN  [i \in 1..Len(T) |-> T[i].lexeme]

Whitespace == {" ", "\r", "\t", "\n"}

RECURSIVE Covers(_, _, _)
\* The source from position pos on is the lexemes from the k-th on, in
\* order, with nothing but whitespace before, between and after them.
Covers(L, pos, k) ==
    IF k <= Len(L) /\ L[k] # <<>> /\ pos + Len(L[k]) <= Len(source)
       /\ SubSeq(source, pos + 1, pos + Len(L[k])) = L[k]
    THEN Covers(L, pos + Len(L[k]), k + 1)
    ELSE IF pos < Len(source) /\ source[pos + 1] \in Whitespace
    THEN Covers(L, pos + 1, k)
    ELSE pos = Len(source) /\ k = Len(L) + 1

\* C20: when a source scans without error, the lexemes of its tokens,
\* comments included and EOF left out, are disjoint pieces of the source in
\* increasing position, and with the whitespace skipped between them they
\* make up the source: each other character is in exactly one lexeme.
C20_LexemeCoverage == Scanned => Covers(Lexemes, 0, 1)

\* A source of two or more tokens, one of them a string or a comment with
\* whitespace inside, scanned without error.
C20_Witness ==
    /\ Scanned
    /\ Len(Lexemes) >= 2
    /\ \E i \in 1..Len(tokens) :
          /\ tokens[i].type \in {"STRING", "INLINE_COMMENT", "BLOCK_COMMENT"}
          /\ Range(tokens[i].lexeme) \cap Whitespace # {}

\* The characters scanToken has no case for.
Unexpected(ch) ==
    ch \notin Whitespace \cup Range(Digits) \cup Range(LowerCase) \cup Range(UpperCase)
              \cup {"_", "\"", "/", "(", ")", "{", "}", ",", ".", "-", "+", ";", "*",
                    "!", "=", "<", ">"}

\* No quote closes a string that opens at position pos (counted from 0).
Unterminated(pos) == \A i \in (pos + 2)..Len(source) : source[i] # "\""

RECURSIVE Tiles(_, _, _)
\* The source from position pos on is the lexemes from the k-th on, in order,
\* separated by whitespace and unexpected characters, and possibly ended by
\* a string that no quote closes.
Tiles(L, pos, k) ==
    IF k <= Len(L) /\ L[k] # <<>> /\ pos + Len(L[k]) <= Len(source)
       /\ SubSeq(source, pos + 1, pos + Len(L[k])) = L[k]
    THEN Tiles(L, pos + Len(L[k]), k + 1)
    ELSE IF pos < Len(source) /\ (source[pos + 1] \in Whitespace \/ Unexpected(source[pos + 1]))
    THEN Tiles(L, pos + 1, k)
    ELSE IF pos < Len(source) /\ source[pos + 1] = "\"" /\ Unterminated(pos)
    THEN k = Len(L) + 1
    ELSE pos = Len(source) /\ k = Len(L) + 1

\* scanTokens has returned: every character was processed, every lexeme
\* around the faulty characters is a token, one EOF token ends the list.
ScanComplete ==
    /\ current = Len(source)
    /\ Tiles(Lexemes, 0, 1)
    /\ Len(tokens) >= 1
    /\ \A i \in 1..Len(tokens) : (tokens[i].type = "EOF") = (i = Len(tokens))

\* C21: scanning never aborts: an unexpected character and an unterminated
\* string set hadError and scanning goes on; scanTokens returns only when
\* all characters are processed, with every well-formed lexeme, also after
\* an unexpected character, emitted and one EOF token as last element.
C21_ScanNeverAborts ==
    [][/\ ScanLoop /\ Unexpected(Advanced) =>
            /\ hadError'
            /\ pc' = "scanTokens"
            /\ current' = current + 1
            /\ tokens' = tokens
       /\ ScanLoop /\ Advanced = "\"" /\ Unterminated(current) =>
            /\ hadError'
            /\ pc' = "scanTokens"
            /\ tokens' = tokens
       /\ pc = "scanTokens" /\ pc' # "scanTokens" => pc' = "tokens" /\ ScanComplete']_vars

\* A source that begins with an unexpected character was scanned into two
\* tokens or more and the EOF token.
C21_Witness ==
    /\ pc = "tokens"
    /\ hadError
    /\ Len(source) >= 1 /\ Unexpected(source[1])
    /\ Len(tokens) >= 3

\* One turn of the loop of Parser.parse.
ParseTurn == pc = "parse" /\ pc' = "parse"

\* The turn pushed no statement, or one.
Dropped == ParseTurn /\ parsed' = parsed

Pushed == ParseTurn /\ Len(parsed') = Len(parsed) + 1 /\ SubSeq(parsed', 1, Len(parsed)) = parsed

\* The position in front of the token that the last report of `log' is about.
ErrorPosition(log) ==
    LET report == log[Len(log)].message
    IN  (CHOOSE i \in 1..Len(tokens) : /\ tokens[i].line = report.line
                                       /\ tokens[i].column = report.column) - 1

\* With c tokens consumed the last one is `;', or the next one begins a
\* statement or is EOF.
StopPoint(c) ==
    \/ tokens[c + 1].type = "EOF"
    \/ c >= 1 /\ tokens[c].type = "SEMICOLON"
    \/ tokens[c + 1].type \in {"CLASS", "FUN", "VAR", "FOR", "IF", "WHILE", "PRINT", "RETURN"}

\* The first stop point after the token at position e is discarded.
SyncPoint(e) ==
    LET from == IF tokens[e + 1].type = "EOF" THEN e ELSE e + 1
    IN  CHOOSE c \in from..Len(tokens) - 1 :
            StopPoint(c) /\ \A d \in from..c - 1 : ~StopPoint(d)

\* C22: a parse error is reported, sets hadError and drops the declaration
\* being parsed; the parser then discards tokens until the last one consumed
\* is `;' or the next one is class, fun, var, for, if, while, print, return or
\* EOF, and resumes there: a declaration that parses from the position the
\* loop is at is pushed after the ones pushed before, and the reports made
\* before stay.
C22_Recovery ==
    [][ParseTurn =>
          LET result == Parser("declaration", <<current, <<>>>>)
          IN  /\ SubSeq(stderr', 1, Len(stderr)) = stderr
              /\ result.thrown =>
                    /\ Dropped
                    /\ hadError'
                    /\ Len(stderr') > Len(stderr)
                    /\ current' = SyncPoint(ErrorPosition(stderr'))
              /\ ~result.thrown =>
                    /\ Pushed
                    /\ parsed'[Len(parsed')] = result.node]_vars

\* ( ; 1 ; ( a = 1 ; was parsed: two errors are reported, the second after
\* the statement 1; that follows the first was pushed.
C22_Witness ==
    /\ pc = "statements"
    /\ tokens = Lexed(<<"lparen", "semicolon", "one", "semicolon", "lparen", "a", "equal",
                        "one", "semicolon">>)
    /\ hadError
    /\ Len(stderr) = 2
    /\ ErrorPosition(stderr) > ErrorPosition(SubSeq(stderr, 1, 1))
    /\ parsed = <<ExpressionStmt(N(1))>>

RECURSIVE Nodes(_)
\* The expressions and statements a syntax tree is made of.
Nodes(node) ==
    {node} \cup
    CASE node.type \in {"Expression", "Print", "Grouping"} -> Nodes(node.expression)
      [] node.type = "Var" -> Nodes(node.initializer)
      [] node.type = "Block" ->
            UNION {Nodes(node.statements[i]) : i \in DOMAIN node.statements}
      [] node.type = "Fun" -> UNION {Nodes(node.body[i]) : i \in DOMAIN node.body}
      [] node.type = "If" ->
            Nodes(node.condition) \cup Nodes(node.thenBranch) \cup Nodes(node.elseBranch)
      [] node.type = "While" -> Nodes(node.condition) \cup Nodes(node.body)
      [] node.type = "Assign" -> Nodes(node.value)
      [] node.type \in {"Binary", "Logical"} -> Nodes(node.left) \cup Nodes(node.right)
      [] node.type = "Unary" -> Nodes(node.right)
      [] node.type = "Call" ->
            Nodes(node.callee) \cup UNION {Nodes(node.args[i]) : i \in DOMAIN node.args}
      [] OTHER -> {}

\* The reports of the step.
NewReports == SubSeq(stderr', Len(stderr) + 1, Len(stderr'))

\* assignment called at position c, where an expression that is no variable
\* is followed by `=' and a value that parses: the left expression is
\* returned, one error more than the value's is reported, nothing is thrown
\* and the parser is where the value ends.
ReturnsLeft(c) ==
    LET left == or(c, <<>>)
        value == assignment(left.current + 1, left.errors)
        result == assignment(c, <<>>)
    IN  (/\ ~left.thrown
         /\ ParserMatch(left.current, {"EQUAL"})
         /\ left.node.type # "Variable"
         /\ ~value.thrown)
        => /\ ~result.thrown
           /\ result.node = left.node
           /\ result.current = value.current
           /\ result.errors =
                 Append(value.errors,
                        [line |-> 1, column |-> left.current + 1, where |-> " at =",
                         message |-> "Invalid assignment target"])

\* C23: an `=' after an expression that is no variable is reported as
\* "Invalid assignment target" and sets hadError, and the parser does not
\* recover: assignment returns the left expression with the right-hand side
\* consumed, and in a turn that reports nothing else the declaration is
\* pushed, no Assign is built for that `=', and the parser has consumed the
\* rest of the statement up to its closing `;' or `}'.
C23_InvalidTarget ==
    [][ParseTurn =>
          /\ \A c \in 0..(Len(tokens) - 1) : ReturnsLeft(c)
          /\ (/\ NewReports # <<>>
              /\ \A i \in DOMAIN NewReports :
                    NewReports[i].message.message = "Invalid assignment target")
             => /\ hadError'
                /\ Pushed
                /\ tokens[current'].type \in {"SEMICOLON", "RIGHT_BRACE"}
                /\ \A i \in DOMAIN NewReports :
                      LET equals == ErrorPosition(SubSeq(NewReports, 1, i)) + 1
                      IN  /\ tokens[equals].type = "EQUAL"
                          /\ equals > current + 1
                          /\ equals < current'
                          /\ \A node \in Nodes(parsed'[Len(parsed')]) :
                                node.type = "Assign" => node.id # equals]_vars

\* a + 1 = 2 ; print a ; was parsed into the statements a + 1; and print a;
\* with one report.
C23_Witness ==
    /\ pc = "statements"
    /\ tokens = Lexed(<<"a", "plus", "one", "equal", "two", "semicolon", "print", "a",
                        "semicolon">>)
    /\ hadError
    /\ Len(stderr) = 1
    /\ stderr[1].message.message = "Invalid assignment target"
    /\ parsed = <<ExpressionStmt(Binary(Variable(1, "a"), "PLUS", N(1))),
                  PrintStmt(Variable(8, "a"))>>

\* The initializer, the condition, the increment and the body of the for
\* statement whose `for' follows position c, each parsed by itself.
ForInitializerAt(c) ==
    IF tokens[c + 3].type = "SEMICOLON" THEN ParseResult(c + 3, <<>>, Null)
    ELSE IF tokens[c + 3].type = "VAR" THEN varDeclaration(c + 3, <<>>)
    ELSE expressionStatement(c + 2, <<>>)

ForConditionAt(c) ==
    LET from == ForInitializerAt(c).current
    IN  IF tokens[from + 1].type = "SEMICOLON" THEN ParseResult(from, <<>>, Null)
        ELSE expression(from, <<>>)

ForIncrementAt(c) ==
    LET from == ForConditionAt(c).current + 1
    IN  IF tokens[from + 1].type = "RIGHT_PAREN" THEN ParseResult(from, <<>>, Null)
        ELSE expression(from, <<>>)

ForBodyAt(c) == statement(ForIncrementAt(c).current + 1, <<>>)

\* Block[init, While(cond, Block[body, Expression(incr)])], where a missing
\* condition is true, a missing increment leaves the body unwrapped and a
\* missing initializer leaves the While unwrapped.
Desugared(init, cond, incr, body) ==
    LET while == [type |-> "While",
                  condition |-> IF cond = Null THEN [type |-> "Literal", value |-> Bool(TRUE)]
                                ELSE cond,
                  body |-> IF incr = Null THEN body
                           ELSE [type |-> "Block",
                                 statements |-> <<body, [type |-> "Expression",
                                                         expression |-> incr]>>]]
    IN  IF init = Null THEN while ELSE [type |-> "Block", statements |-> <<init, while>>]

\* The for statement after position c, where there is one that parses, is
\* parsed into what its parts desugar to, and ends where its body ends.
ForShape(c) ==
    LET result == statement(c, <<>>)
    IN  (tokens[c + 1].type = "FOR" /\ ~result.thrown)
        => /\ result.node = Desugared(ForInitializerAt(c).node, ForConditionAt(c).node,
                                      ForIncrementAt(c).node, ForBodyAt(c).node)
           /\ result.current = ForBodyAt(c).current

\* The file of TokenFiles that was run, and how the run ended.
RanTokens(i) == pc = "exited" /\ tokens = Lexed(TokenFiles[i])

\* The texts print has written.
Printed == [i \in 1..Len(stdout) |-> stdout[i].text]

LastError == stderr[Len(stderr)]

\* C24: a for statement parses to Block[init, While(cond, Block[body,
\* Expression(incr)])], with true for a missing condition, the body unwrapped
\* for a missing increment and the While unwrapped for a missing initializer.
\* Hence the increment runs after the body and before the condition is tested
\* again (for (var a = 1; a < 3; a = a + 1) print a; prints 1 and 2, and a loop
\* without condition goes on until its body fails), and the variable of the
\* initializer is unknown after the loop.
C24_ForDesugars ==
    /\ [][ParseTurn => \A c \in 0..(Len(tokens) - 1) : ForShape(c)]_vars
    /\ [](RanTokens(1) =>
            /\ Printed = <<"1", "2">>
            /\ hadRuntimeError
            /\ LastError.message = "Undefined variable 'a'")
    /\ [](RanTokens(2) => Printed = <<"1", "2", "3">> /\ ~hadRuntimeError)
    /\ [](RanTokens(3) =>
            /\ Printed = <<"1", "2">>
            /\ hadRuntimeError
            /\ LastError.message = "Undefined variable 'b'")
    /\ [](RanTokens(5) => Printed = <<"1", "2", "2">> /\ ~hadRuntimeError)

\* for (var a = 1; a < 3; a = a + 1) print a; print a; was parsed into a block
\* of the declaration and the while loop, and has run.
C24_Witness ==
    /\ RanTokens(1)
    /\ input[1].statements =
          <<BlockStmt(<<VarStmt("a", N(1)),
                        WhileStmt(Binary(Variable(8, "a"), "LESS", N(3)),
                                  BlockStmt(<<PrintStmt(Variable(19, "a")),
                                              ExpressionStmt(
                                                  Assign(13, "a",
                                                         Binary(Variable(14, "a"), "PLUS",
                                                                N(1))))>>))>>),
            PrintStmt(Variable(22, "a"))>>
    /\ Printed = <<"1", "2">>

\* The reports of the step that say `message'.
ReportsOf(message) == {i \in DOMAIN NewReports : NewReports[i].message.message = message}

\* The calls with arguments and the functions with parameters in a syntax tree.
Lists(node) ==
    {n \in Nodes(node) : \/ n.type = "Call" /\ n.args # <<>>
                         \/ n.type = "Fun" /\ n.params # <<>>}

ListLength(n) == IF n.type = "Call" THEN Len(n.args) ELSE Len(n.params)

\* The commas among the tokens the step consumed.
Commas == {i \in (current + 1)..current' : tokens[i].type = "COMMA"}

\* C25: a call of up to 255 arguments and a function of up to 255 parameters
\* are parsed without a report; one of more than 255 is reported, sets
\* hadError and is not abandoned: the turn pushes its statement, parsed up to
\* its end, with every argument or parameter in the Call or Fun node.
C25_Limit ==
    [][(ParseTurn /\ ~Parser("declaration", <<current, <<>>>>).thrown) =>
          LET node == parsed'[Len(parsed')]
          IN  /\ Pushed
              /\ ReportsOf("Can't have more than 255 arguments") # {}
                    <=> \E n \in Nodes(node) : n.type = "Call" /\ Len(n.args) > 255
              /\ ReportsOf("Can't have more than 255 parameters") # {}
                    <=> \E n \in Nodes(node) : n.type = "Fun" /\ Len(n.params) > 255
              /\ (\E n \in Lists(node) : ListLength(n) > 255) =>
                    /\ hadError'
                    /\ tokens[current'].type \in {"SEMICOLON", "RIGHT_BRACE"}
              /\ Cardinality(Lists(node)) = 1 =>
                    \A n \in Lists(node) : ListLength(n) = Cardinality(Commas) + 1]_vars

\* A call of 256 arguments was parsed: the error is reported and the statement
\* with its 256 arguments pushed, and the statement after it too.
C25_Witness ==
    /\ pc = "statements"
    /\ tokens = Lexed(CallOf(256) \o <<"print", "one", "semicolon">>)
    /\ hadError
    /\ Len(stderr) = 1
    /\ stderr[1].message.message = "Can't have more than 255 arguments"
    /\ parsed = <<ExpressionStmt(Call(Variable(1, "f"), [i \in 1..256 |-> N(1)])),
                  PrintStmt(N(1))>>

\* The lexemes that are identifier texts: [A-Za-z_][A-Za-z0-9_]*.
IdentifierText(lexeme) ==
    /\ lexeme # <<>>
    /\ isAlpha(lexeme[1])
    /\ \A i \in DOMAIN lexeme : isAlphaNumeric(lexeme[i])

\* C26: an identifier lexeme has a keyword kind exactly when its text is one of
\* the sixteen entries of the keyword table, and then the kind of that entry;
\* every other identifier text, also one that differs from a keyword by the
\* case of a letter only, has kind IDENTIFIER.
C26_Keywords ==
    /\ DOMAIN TokenKeywordMap =
          {"and", "class", "else", "false", "fun", "for", "if", "nil", "or", "print",
           "return", "super", "this", "true", "var", "while"}
    /\ \A i \in DOMAIN tokens :
          IdentifierText(tokens[i].lexeme) =>
             tokens[i].type = IF Text(tokens[i].lexeme) \in DOMAIN TokenKeywordMap
                              THEN TokenKeywordMap[Text(tokens[i].lexeme)]
                              ELSE "IDENTIFIER"

\* The newline characters among the first n characters of the source.
Newlines(n) == Cardinality({i \in 1..n : source[i] = "\n"})

\* C27: every newline the scanner passes - between tokens, in a string or in
\* a comment - advances line by one, so a token carries as line one more than
\* the number of newlines up to the end of its lexeme.
C27_Lines ==
    [][pc = "scanTokens" =>
          /\ line' = line + (Newlines(current') - Newlines(current))
          /\ Len(tokens') > Len(tokens) =>
                tokens'[Len(tokens')].line = 1 + Newlines(current')]_vars

CommentTypes == {"INLINE_COMMENT", "BLOCK_COMMENT"}

Least(set) == CHOOSE x \in set : \A y \in set : x <= y

\* The scanner is at a `//' or a `/*'.
AtComment(opener) ==
    /\ pc = "scanTokens"
    /\ current + 2 <= Len(source)
    /\ source[current + 1] = "/"
    /\ source[current + 2] = opener

\* Where the comment that opens at `current' ends: in front of the next
\* newline, or behind the next `*/', or at the end of the source.
LineCommentEnd ==
    LET breaks == {j \in (current + 2)..(Len(source) - 1) : source[j + 1] = "\n"}
    IN  IF breaks = {} THEN Len(source) ELSE Least(breaks)

BlockCommentEnd ==
    LET closers == {j \in (current + 4)..Len(source) : source[j - 1] = "*" /\ source[j] = "/"}
    IN  IF closers = {} THEN Len(source) ELSE Least(closers)

\* The step scans the text up to position `end' into one token of kind `type'.
OneToken(type, end) ==
    /\ current' = end
    /\ Len(tokens') = Len(tokens) + 1
    /\ SubSeq(tokens', 1, Len(tokens)) = tokens
    /\ tokens'[Len(tokens')].type = type
    /\ tokens'[Len(tokens')].lexeme = SubSeq(source, current + 1, end)

\* The kinds and lexemes of the tokens the parser was given.
Given == [i \in DOMAIN tokens |-> <<tokens[i].type, tokens[i].lexeme>>]

\* C28: a `//' comment goes up to the next newline or the end of the source,
\* a `/*' comment through the next `*/', and either is scanned into one
\* INLINE_COMMENT or BLOCK_COMMENT token; run takes these tokens out, in a
\* step that leaves the other tokens as they are, before the parser gets the
\* list, so the parser never sees one; and the statements parsed are those of
\* the remaining tokens: whatever comments the source of 1; or of 1; o; has,
\* the statements are the same.
C28_Comments ==
    /\ [][/\ AtComment("/") => OneToken("INLINE_COMMENT", LineCommentEnd)
          /\ AtComment("*") => OneToken("BLOCK_COMMENT", BlockCommentEnd)
          /\ pc = "tokens" =>
                /\ \A i \in DOMAIN tokens' : tokens'[i].type \notin CommentTypes
                /\ Len(tokens') =
                      Cardinality({i \in DOMAIN tokens : tokens[i].type \notin CommentTypes})
                /\ \A i \in DOMAIN tokens :
                      tokens[i].type \notin CommentTypes =>
                         \E j \in DOMAIN tokens' :
                            /\ tokens'[j] = tokens[i]
                            /\ j = Cardinality({k \in 1..i :
                                                  tokens[k].type \notin CommentTypes})]_vars
    /\ [](pc \in {"Parser", "parse", "statements"} =>
             \A i \in DOMAIN tokens : tokens[i].type \notin CommentTypes)
    /\ [](pc = "statements" =>
             /\ Given = <<<<"NUMBER", <<"1">>>>, <<"SEMICOLON", <<";">>>>, <<"EOF", <<>>>>>>
                   => parsed = <<ExpressionStmt(N(1))>>
             /\ Given = <<<<"NUMBER", <<"1">>>>, <<"SEMICOLON", <<";">>>>,
                          <<"IDENTIFIER", <<"o">>>>, <<"SEMICOLON", <<";">>>>, <<"EOF", <<>>>>>>
                   => parsed = <<ExpressionStmt(N(1)), ExpressionStmt(Variable(3, "o"))>>)

\* /*1*/1;//o was scanned into three tokens and the end, and parsed into the
\* statement 1; alone.
C28_Witness ==
    /\ pc = "statements"
    /\ source = <<"/", "*", "1", "*", "/", "1", ";", "/", "/", "o">>
    /\ Len(tokens) = 3
    /\ parsed = <<ExpressionStmt(N(1))>>
    /\ ~hadError

\* C29: parse terminates on every token list that ends with EOF: every turn
\* of its loop, whether declaration returns or throws and synchronize runs,
\* leaves the parser strictly further along or at EOF; the parser is never
\* behind the EOF token, which is the last it reads; and the loop ends.
C29_Terminates ==
    /\ [][ParseTurn =>
             /\ current' > current \/ ParserIsAtEnd(current')
             /\ Parser("declaration", <<current, <<>>>>).current < Len(tokens)]_vars
    /\ [](/\ tokens[Len(tokens)].type = "EOF"
          /\ current < Len(tokens)
          /\ \A i \in 1..current : tokens[i].type # "EOF"
          /\ (pc = "parse" /\ ~ParserIsAtEnd(current)) =>
                Parser("declaration", <<current, <<>>>>).thrown \in BOOLEAN)
    /\ <>(pc = "statements")

\* 1 print 1 ; print 2 ; was parsed to its end: after a turn that failed and
\* one that pushed a statement the parser is at EOF and parse has returned.
C29_Witness ==
    /\ pc = "statements"
    /\ tokens = Lexed(<<"one", "print", "one", "semicolon", "print", "two", "semicolon">>)
    /\ current = Len(tokens) - 1
    /\ Len(stderr) = 1
    /\ parsed = <<PrintStmt(N(2))>>

\* The environment the expression refers to: the one its recorded distance
\* leads to, or globals when the resolver recorded none.
Referred(expr) ==
    IF Has(locals, expr.id) THEN ancestor(envs, environment, locals[expr.id]) ELSE Globals

\* The body of a function is being run.
InFunction == Interpreting /\ HasFrame("LoxFunctionCall")

\* The file that was run.
RanFile(file) == pc = "exited" /\ args = 1 /\ input = <<file>>

\* C30: scoping is static.  What the resolver recorded for an expression
\* stays; a variable read in a function body yields the binding of the
\* environment the expression refers to, and an assignment there changes that
\* binding and no other, whatever the environments nearer by bind; so a
\* function declared in a block before `var a' reads and assigns the same a
\* before and after that declaration.
C30_StaticScoping ==
    /\ [][/\ \A id \in DOMAIN locals : Has(locals', id) /\ locals'[id] = locals[id]
          /\ (InFunction /\ ctrl.c = "eval" /\ ctrl.expr.type = "Variable") =>
                LET e == Referred(ctrl.expr)
                IN  ctrl' = IF e # 0 /\ Has(envs[e].values, ctrl.expr.name)
                            THEN Value(envs[e].values[ctrl.expr.name])
                            ELSE RuntimeError("Undefined variable '" \o ctrl.expr.name \o "'")
          /\ (InFunction /\ ctrl.c = "value" /\ TopIs("Assign")) =>
                LET e == Referred(Top(kont).expr)
                    name == Top(kont).expr.name
                IN  \/ envs' = envs /\ ctrl'.c = "throw"
                    \/ /\ e # 0
                       /\ envs'[e].values[name] = ctrl.v
                       /\ \A i \in DOMAIN envs : \A n \in DOMAIN envs[i].values :
                             (i # e \/ n # name) =>
                                Has(envs'[i].values, n) /\ envs'[i].values[n] = envs[i].values[n]]_vars
    /\ [](RanFile(ProgStatic) => Printed = <<"global", "global", "block">>)
    /\ [](RanFile(ProgStaticAssign) => Printed = <<"block", "set">>)
    /\ [](RanFile(ProgStaticLocal) => Printed = <<"outer", "outer", "inner">>)

\* show() is called the second time in { fun show() { print a; } show();
\* var a = "block"; show(); }: it reads a, which refers to globals, while the
\* block it was declared in binds a too.
C30_Witness ==
    /\ InFunction
    /\ input = <<ProgStatic>>
    /\ ctrl.c = "eval" /\ ctrl.expr.type = "Variable" /\ ctrl.expr.name = "a"
    /\ Referred(ctrl.expr) = Globals
    /\ EnvFind(envs, environment, "a") # Globals
    /\ Printed = <<"global">>

====
